---- MODULE Spec2Model ----
(***************************************************************************)
(* Model of the SpeakMCP command-line client and of its audio helper:      *)
(*   apps/cli/src/sse.rs   parse_sse_event and the event payload shapes    *)
(*   apps/cli/src/api.rs   ApiClient: from_config, the requests, chat and  *)
(*                         chat_streaming                                  *)
(*   apps/cli/src/main.rs  send_message, streaming branch and its closure; *)
(*                         check_status                                    *)
(*   apps/cli/src/repl.rs  run, the interactive session                    *)
(*   speakmcp-audio/src/main.rs  the capture helper's threads              *)
(*                                                                         *)
(* Rust Strings whose byte offsets matter (streamed text, done content)    *)
(* are sequences of characters; each character has a UTF-8 width, so that  *)
(* str::len() and the byte-offset slice &s[i..] are computed as Rust       *)
(* computes them.  Strings of which only the identity matters (type tags,  *)
(* ids, messages) are TLA+ strings.                                        *)
(*                                                                         *)
(* Specifications:                                                         *)
(*   Spec                 one streaming turn that continues a conversation *)
(*   AnyConversationSpec  the turn, with or without a conversation id      *)
(*   InterruptibleSpec    the turn, with a user who may interrupt it       *)
(*   SinkSpec             send_message's closure alone, on Progress events *)
(*   ReplSpec             the interactive session, line after line         *)
(*   TurnsSpec            chat turns and streaming turns, one after another*)
(*   CliSpec              the client, whatever the command                 *)
(*   HelperSpec           the audio capture helper                         *)
(***************************************************************************)
EXTENDS Integers, Sequences, FiniteSets, TLC

(***************************************************************************)
(* Bounds of the model.                                                    *)
(***************************************************************************)
\* longest streamed text / done content, in characters
MaxLen == 2
\* most items one call of chat_streaming fetches from the event source
MaxFrames == 3

(***************************************************************************)
(* Rust strings: UTF-8 byte lengths and byte-offset slicing.               *)
(***************************************************************************)
\* "a" is a one-byte character, "W" stands for a two-byte character (U+00E9)
Alphabet == {"a", "W"}

NL == "\n"

len_utf8(c) == IF c = "W" THEN 2 ELSE 1

RECURSIVE str_len(_)
str_len(s) == IF s = <<>> THEN 0 ELSE len_utf8(Head(s)) + str_len(Tail(s))

is_char_boundary(s, i) ==
    \E k \in 0..Len(s) : str_len(SubSeq(s, 1, k)) = i

\* &s[i..] for a byte offset i that is a character boundary of s
slice_from(s, i) ==
    LET k == CHOOSE j \in 0..Len(s) : str_len(SubSeq(s, 1, j)) = i
    IN  SubSeq(s, k + 1, Len(s))

RECURSIVE StringsUpTo(_)
StringsUpTo(n) ==
    IF n = 0 THEN {<<>>}
    ELSE LET shorter == StringsUpTo(n - 1)
         IN  shorter \cup {Append(s, c) : s \in {t \in shorter : Len(t) = n - 1},
                                          c \in Alphabet}

Texts == StringsUpTo(MaxLen)

IsPrefix(s, t) == Len(s) <= Len(t) /\ SubSeq(t, 1, Len(s)) = s

RECURSIVE Concat(_)
Concat(ss) == IF ss = <<>> THEN <<>> ELSE Head(ss) \o Concat(Tail(ss))

Range(f) == {f[i] : i \in DOMAIN f}

(***************************************************************************)
(* Option<T>.                                                              *)
(***************************************************************************)
None == [some |-> FALSE]
Some(x) == [some |-> TRUE, val |-> x]

(***************************************************************************)
(* JSON documents (serde_json::Value): a tag and a value.                  *)
(***************************************************************************)
JNull == [t |-> "null"]
JStr(s) == [t |-> "str", v |-> s]
JNum(n) == [t |-> "num", v |-> n]
JBool(b) == [t |-> "bool", v |-> b]
JArr(a) == [t |-> "arr", v |-> a]
JObj(o) == [t |-> "obj", v |-> o]


(***************************************************************************)
(* serde: the shapes #[derive(Deserialize)] accepts.  A type is described  *)
(* by a descriptor; a struct by its fields in declaration order, each with *)
(* its Rust name, its name on the wire and whether it is #[serde(default)].*)
(* A derived struct is read from a JSON object (unknown keys ignored, a    *)
(* missing key allowed only for Option and default fields) or from a JSON  *)
(* array holding exactly one element per field.                            *)
(***************************************************************************)
TString == [k |-> "String"]
TBool == [k |-> "bool"]
TI32 == [k |-> "i32"]
TU64 == [k |-> "u64"]
TValue == [k |-> "Value"]
TOption(ty) == [k |-> "Option", of |-> ty]
TVec(ty) == [k |-> "Vec", of |-> ty]
TStruct(fields) == [k |-> "struct", fields |-> fields]

Field(name, wire, ty) == [name |-> name, wire |-> wire, ty |-> ty, dflt |-> FALSE]
DefaultField(name, wire, ty) == [name |-> name, wire |-> wire, ty |-> ty, dflt |-> TRUE]

\* the largest i32
I32Max == 2147483647

MayBeMissing(fld) == fld.ty.k = "Option" \/ fld.dflt

RECURSIVE Valid(_, _)
Valid(ty, v) ==
    CASE ty.k = "String" -> v.t = "str"
      [] ty.k = "bool"   -> v.t = "bool"
      [] ty.k = "i32"    -> v.t = "num" /\ v.v >= -I32Max - 1 /\ v.v <= I32Max
      [] ty.k = "u64"    -> v.t = "num" /\ v.v >= 0
      [] ty.k = "Value"  -> TRUE
      [] ty.k = "Option" -> v.t = "null" \/ Valid(ty.of, v)
      [] ty.k = "Vec"    -> v.t = "arr" /\ \A i \in DOMAIN v.v : Valid(ty.of, v.v[i])
      [] ty.k = "struct" ->
            \/ /\ v.t = "obj"
               /\ \A i \in DOMAIN ty.fields :
                     IF ty.fields[i].wire \in DOMAIN v.v
                     THEN Valid(ty.fields[i].ty, v.v[ty.fields[i].wire])
                     ELSE MayBeMissing(ty.fields[i])
            \/ /\ v.t = "arr"
               /\ Len(v.v) = Len(ty.fields)
               /\ \A i \in DOMAIN ty.fields : Valid(ty.fields[i].ty, v.v[i])

\* the value a missing field takes: None for an Option, Value::Null for a
\* defaulted serde_json::Value
MissingValue(fld) == IF fld.ty.k = "Option" THEN None ELSE JNull

RECURSIVE Conv(_, _)
Conv(ty, v) ==
    CASE ty.k \in {"String", "bool", "i32", "u64"} -> v.v
      [] ty.k = "Value"  -> v
      [] ty.k = "Option" -> IF v.t = "null" THEN None ELSE Some(Conv(ty.of, v))
      [] ty.k = "Vec"    -> [i \in DOMAIN v.v |-> Conv(ty.of, v.v[i])]
      [] ty.k = "struct" ->
            [n \in {ty.fields[i].name : i \in DOMAIN ty.fields} |->
                LET i == CHOOSE j \in DOMAIN ty.fields : ty.fields[j].name = n
                    fld == ty.fields[i]
                IN  IF v.t = "arr" THEN Conv(fld.ty, v.v[i])
                    ELSE IF fld.wire \in DOMAIN v.v THEN Conv(fld.ty, v.v[fld.wire])
                    ELSE MissingValue(fld)]

\* serde_json::from_value::<T>(v)
from_value(ty, v) ==
    IF Valid(ty, v) THEN [ok |-> TRUE, val |-> Conv(ty, v)] ELSE [ok |-> FALSE]

(***************************************************************************)
(* The text of one SSE data payload: optional surrounding whitespace       *)
(* around nothing, the "[DONE]" marker, text that is not JSON, or a JSON   *)
(* document.                                                               *)
(***************************************************************************)
Blank(pad) == [pad |-> pad, k |-> "blank"]
Marker(pad) == [pad |-> pad, k |-> "marker"]
Garbage(pad) == [pad |-> pad, k |-> "text"]
Json(pad, doc) == [pad |-> pad, k |-> "json", doc |-> doc]

\* str::trim
trim(raw) == [raw EXCEPT !.pad = FALSE]

\* serde_json::from_str::<T>(s)
from_str(ty, s) ==
    IF s.k = "json" THEN from_value(ty, s.doc) ELSE [ok |-> FALSE]

(***************************************************************************)
(* sse.rs and api.rs: the payload shapes.                                  *)
(***************************************************************************)
ToolCall ==
    TStruct(<< Field("name", "name", TString),
               DefaultField("arguments", "arguments", TValue) >>)

ToolResult ==
    TStruct(<< Field("success", "success", TBool),
               Field("content", "content", TString),
               Field("error", "error", TOption(TString)) >>)

ConversationMessage ==
    TStruct(<< Field("role", "role", TString),
               Field("content", "content", TString),
               Field("timestamp", "timestamp", TOption(TU64)),
               Field("tool_calls", "toolCalls", TOption(TVec(ToolCall))),
               Field("tool_results", "toolResults", TOption(TVec(ToolResult))) >>)

StreamingContent ==
    TStruct(<< Field("text", "text", TString),
               Field("is_streaming", "isStreaming", TBool) >>)

ToolCallInfo ==
    TStruct(<< Field("name", "name", TString),
               DefaultField("arguments", "arguments", TValue),
               Field("server_name", "serverName", TOption(TString)) >>)

ToolResultInfo ==
    TStruct(<< Field("success", "success", TBool),
               Field("content", "content", TString),
               Field("error", "error", TOption(TString)) >>)

AgentProgressStep ==
    TStruct(<< Field("id", "id", TString),
               Field("step_type", "type", TString),
               Field("title", "title", TString),
               Field("status", "status", TString),
               Field("tool_call", "toolCall", TOption(ToolCallInfo)),
               Field("tool_result", "toolResult", TOption(ToolResultInfo)),
               Field("llm_content", "llmContent", TOption(TString)) >>)

AgentProgressUpdate ==
    TStruct(<< Field("session_id", "sessionId", TString),
               Field("conversation_id", "conversationId", TOption(TString)),
               Field("conversation_title", "conversationTitle", TOption(TString)),
               Field("current_iteration", "currentIteration", TI32),
               Field("max_iterations", "maxIterations", TI32),
               Field("steps", "steps", TVec(AgentProgressStep)),
               Field("is_complete", "isComplete", TBool),
               Field("is_snoozed", "isSnoozed", TOption(TBool)),
               Field("final_content", "finalContent", TOption(TString)),
               Field("streaming_content", "streamingContent", TOption(StreamingContent)),
               Field("conversation_history", "conversationHistory",
                     TOption(TVec(ConversationMessage))) >>)

\* DoneEvent read under camelCase names, as the other payloads are
DoneEvent_camelCase ==
    TStruct(<< Field("content", "content", TString),
               Field("conversation_id", "conversationId", TOption(TString)),
               Field("conversation_history", "conversationHistory",
                     TOption(TVec(ConversationMessage))),
               Field("model", "model", TOption(TString)) >>)

\* DoneEvent carries no rename_all: its fields are read under their Rust names
DoneEvent ==
    TStruct(<< Field("content", "content", TString),
               Field("conversation_id", "conversation_id", TOption(TString)),
               Field("conversation_history", "conversation_history",
                     TOption(TVec(ConversationMessage))),
               Field("model", "model", TOption(TString)) >>)

ErrorEvent ==
    TStruct(<< Field("message", "message", TString) >>)

SseEnvelope ==
    TStruct(<< Field("event_type", "type", TString),
               Field("data", "data", TValue) >>)

(***************************************************************************)
(* sse.rs: SseEvent and parse_sse_event.                                   *)
(***************************************************************************)
Progress(update) == [ev |-> "Progress", val |-> update]
Done(done) == [ev |-> "Done", val |-> done]
Error(err) == [ev |-> "Error", val |-> err]
Unknown(raw) == [ev |-> "Unknown", val |-> raw]

parse_sse_event(raw) ==
    LET data == trim(raw)
        envelope == from_str(SseEnvelope, data)
        progress == from_value(AgentProgressUpdate, envelope.val.data)
        done == from_value(DoneEvent, envelope.val.data)
        err == from_value(ErrorEvent, envelope.val.data)
    IN  IF data.k = "blank" \/ data.k = "marker" THEN None
        ELSE IF ~envelope.ok THEN Some(Unknown(data))
        ELSE CASE envelope.val.event_type = "progress" ->
                    IF progress.ok THEN Some(Progress(progress.val))
                    ELSE Some(Unknown(data))
               [] envelope.val.event_type = "done" ->
                    IF done.ok THEN Some(Done(done.val))
                    ELSE Some(Unknown(data))
               [] envelope.val.event_type = "error" ->
                    IF err.ok THEN Some(Error(err.val))
                    ELSE Some(Unknown(data))
               [] OTHER -> Some(Unknown(data))

(***************************************************************************)
(* The payloads the server is taken to send, as they appear on the wire.   *)
(***************************************************************************)
Obj1(k, v) == k :> v

Envelope(type, data) == JObj(Obj1("type", JStr(type)) @@ Obj1("data", data))

StreamingDoc(text, is_streaming) ==
    JObj(Obj1("text", JStr(text)) @@ Obj1("isStreaming", JBool(is_streaming)))

StepDoc(status, extra) ==
    JObj(Obj1("id", JStr("step1")) @@ Obj1("type", JStr("tool_call"))
         @@ Obj1("title", JStr("Calling tool")) @@ Obj1("status", JStr(status))
         @@ extra)

ToolCallDoc(name) == JObj(Obj1("name", JStr(name)))

ToolResultDoc == JObj(Obj1("success", JBool(TRUE)) @@ Obj1("content", JStr("ok")))

ProgressDoc(steps, is_complete, extra) ==
    JObj(Obj1("sessionId", JStr("abc123")) @@ Obj1("currentIteration", JNum(1))
         @@ Obj1("maxIterations", JNum(10)) @@ Obj1("steps", JArr(steps))
         @@ Obj1("isComplete", JBool(is_complete)) @@ extra)

\* progress frames that stream text
TextFrames ==
    {Json(FALSE, Envelope("progress",
        ProgressDoc(<<>>, FALSE, Obj1("streamingContent", StreamingDoc(t, b))))) :
        t \in Texts, b \in BOOLEAN}

\* progress frames that report steps and completion, without streamed text
StepFrames ==
    { Json(FALSE, Envelope("progress", ProgressDoc(<<>>, FALSE, <<>>))),
      Json(FALSE, Envelope("progress", ProgressDoc(<<>>, TRUE,
            Obj1("finalContent", JStr("a"))))),
      Json(FALSE, Envelope("progress", ProgressDoc(
            << StepDoc("running", Obj1("toolCall", ToolCallDoc("search"))) >>,
            FALSE, <<>>))),
      Json(FALSE, Envelope("progress", ProgressDoc(
            << StepDoc("pending", Obj1("toolCall", ToolCallDoc("search"))) >>,
            FALSE, <<>>))),
      Json(FALSE, Envelope("progress", ProgressDoc(
            << StepDoc("complete", Obj1("toolResult", ToolResultDoc)) >>,
            FALSE, <<>>))),
      Json(FALSE, Envelope("progress", ProgressDoc(
            << StepDoc("complete", Obj1("toolCall", ToolCallDoc("search"))
                                   @@ Obj1("toolResult", ToolResultDoc)),
               StepDoc("running", Obj1("toolCall", ToolCallDoc("search"))) >>,
            FALSE, <<>>))) }

\* one message of a conversation history, as ConversationMessage writes it
HistoryDoc ==
    JArr(<< JObj(Obj1("role", JStr("user")) @@ Obj1("content", JStr("hello"))) >>)

\* a done frame with its id and history under the keys conversationId and
\* conversationHistory
CamelCaseDoneFrame ==
    Json(FALSE, Envelope("done", JObj(Obj1("content", JStr(<<"a">>))
                                      @@ Obj1("conversationId", JStr("conv123"))
                                      @@ Obj1("conversationHistory", HistoryDoc))))

\* the same frame with the keys conversation_id and conversation_history
SnakeCaseDoneFrame ==
    Json(FALSE, Envelope("done", JObj(Obj1("content", JStr(<<"a">>))
                                      @@ Obj1("conversation_id", JStr("conv123"))
                                      @@ Obj1("conversation_history", HistoryDoc))))

DoneFrames ==
    {Json(FALSE, Envelope("done", JObj(Obj1("content", JStr(t))))) : t \in Texts}
    \cup
    { Json(FALSE, Envelope("done", JObj(Obj1("content", JStr(<<"a">>))
                                        @@ Obj1("conversation_id", JStr("conv123"))))),
      CamelCaseDoneFrame, SnakeCaseDoneFrame }

Messages == {"rate limited", "Something went wrong"}

ErrorFrames ==
    {Json(FALSE, Envelope("error", JObj(Obj1("message", JStr(m))))) : m \in Messages}

\* payloads that carry no event, and payloads that are no well-formed frame
OtherFrames ==
    { Blank(FALSE), Blank(TRUE), Marker(FALSE), Marker(TRUE), Garbage(FALSE),
      Json(FALSE, Envelope("unknown_type", JObj(<<>>))),
      Json(FALSE, Envelope("error", JObj(<<>>))),
      Json(FALSE, Envelope("done", JObj(Obj1("text", JStr(<<"a">>))))),
      Json(FALSE, Envelope("progress",
            JObj(Obj1("sessionId", JStr("abc123")) @@ Obj1("currentIteration", JNum(1))
                 @@ Obj1("maxIteration", JNum(10)) @@ Obj1("steps", JArr(<<>>))
                 @@ Obj1("isComplete", JBool(FALSE))))) }

\* JSON arrays where the frame format has objects: an envelope written as
\* [type, data], and a done frame whose data is written as a list of values
PositionalFrames ==
    { Json(FALSE, JArr(<< JStr("error"), JObj(Obj1("message", JStr("rate limited"))) >>)),
      Json(FALSE, Envelope("done", JArr(<< JStr(<<"a">>), JNull, JNull, JNull >>))) }

Payloads ==
    TextFrames \cup StepFrames \cup DoneFrames \cup ErrorFrames \cup OtherFrames
    \cup PositionalFrames

TransportErrors == {"connection reset", "timed out"}

\* parse_sse_event on each payload, computed once
Parsed == [d \in Payloads |-> parse_sse_event(d)]

(***************************************************************************)
(* What EventSource::next() yields: Some(Ok(Event::Open)),                 *)
(* Some(Ok(Event::Message(m))), Some(Err(e)) or None.                      *)
(***************************************************************************)
EvOpen == [k |-> "Open"]
EvMessage(data) == [k |-> "Message", data |-> data]
EvErr(e) == [k |-> "Err", err |-> e]
EvNone == [k |-> "None"]

Items ==
    {EvOpen, EvNone} \cup {EvMessage(d) : d \in Payloads}
                     \cup {EvErr(e) : e \in TransportErrors}

(***************************************************************************)
(* State.                                                                  *)
(***************************************************************************)
VARIABLES
    config,                   \* Config: api_key, show_tool_calls
    conversation_id,          \* send_message's conversation_id argument
    pc,                       \* "start", "streaming", "exit0", "exit1", "panicked",
                              \* "interrupted"
    request,                  \* the request chat_streaming has issued, if any
    es,                       \* the EventSource: "none", "open", "closed", "dropped"
    pending,                  \* the transport holds an item that was never fetched
    event,                    \* the last value es.next() returned
    fetched,                  \* how many values es.next() has returned
    decoded,                  \* how many payloads parse_sse_event was applied to
    sink_calls,               \* how many times on_event was called
    last_streaming_text_len,  \* the sink's printed cursor
    final_response,           \* chat_streaming's final_response
    stdout,                   \* the pieces written to standard output, in order
    stderr,                   \* the lines written to standard error, in order
    result,                   \* what chat_streaming returned, once it has
    streamed,                 \* the texts of the streaming Progress frames applied
    frames,                   \* sink harness: the events applied, in order
    applied,                  \* sink harness: how many events have been applied
    in_flight,                \* chat requests sent and not yet answered
    history,                  \* what the session did so far, in order
    cmd_rx,                   \* audio helper: commands sent by the stdin thread
    audio_rx,                 \* audio helper: chunks sent by the capture callback
    current_stream,           \* audio helper: main's current_stream
    current_session,          \* audio helper: main's current_session
    lines_read                \* audio helper: lines the stdin thread has read

\* the state of the chat session beyond one turn, and of the audio helper
session_vars == << in_flight, history >>

helper_vars == << cmd_rx, audio_rx, current_stream, current_session, lines_read >>

vars == << config, conversation_id, pc, request, es, pending, event, fetched,
           decoded, sink_calls, last_streaming_text_len, final_response,
           stdout, stderr, result, streamed, frames, applied,
           in_flight, history,
           cmd_rx, audio_rx, current_stream, current_session, lines_read >>

NoEvent == [k |-> "NoEvent"]

Ok(v) == [ok |-> TRUE, val |-> v]
Err(e) == [ok |-> FALSE, err |-> e]

(***************************************************************************)
(* main.rs, send_message: the closure passed to chat_streaming.  The sink  *)
(* state is the captured cursor and the two output channels; panicked      *)
(* tells that the byte-offset slice hit the inside of a character.         *)
(***************************************************************************)
SinkState(len, out, errs) ==
    [len |-> len, out |-> out, err |-> errs, panicked |-> FALSE]

\* tool_call_notices whatever the status of the step
tool_call_notices_any_status(cfg, steps) ==
    IF cfg.show_tool_calls
    THEN LET shown == SelectSeq(steps, LAMBDA step : step.tool_call.some)
         IN  [i \in DOMAIN shown |-> <<"tool", shown[i].tool_call.val.name>>]
    ELSE <<>>

\* main.rs:508-516, the notices of one Progress event
tool_call_notices(cfg, steps) ==
    IF cfg.show_tool_calls
    THEN LET shown == SelectSeq(steps, LAMBDA step :
                         /\ step.status = "running" \/ step.status = "complete"
                         /\ step.tool_call.some)
         IN  [i \in DOMAIN shown |-> <<"tool", shown[i].tool_call.val.name>>]
    ELSE <<>>

\* print_from writing the whole text instead of the part beyond the cursor
print_from_whole(st, text, new_len) ==
    IF is_char_boundary(text, st.len)
    THEN [st EXCEPT !.out = Append(@, text), !.len = new_len]
    ELSE [st EXCEPT !.panicked = TRUE]

\* print!("{}", &text[len..]): the write, or the slice's panic
print_from(st, text, new_len) ==
    IF is_char_boundary(text, st.len)
    THEN [st EXCEPT !.out = Append(@, slice_from(text, st.len)), !.len = new_len]
    ELSE [st EXCEPT !.panicked = TRUE]

\* on_progress with the cursor never advanced
on_progress_no_advance(cfg, st, progress) ==
    LET noticed == [st EXCEPT !.err = @ \o tool_call_notices(cfg, progress.steps)]
        streaming == progress.streaming_content
    IN  IF /\ streaming.some
           /\ streaming.val.is_streaming
           /\ str_len(streaming.val.text) > st.len
        THEN print_from(noticed, streaming.val.text, st.len)
        ELSE noticed

\* on_progress printing whenever the text's length differs from the cursor
on_progress_ne(cfg, st, progress) ==
    LET noticed == [st EXCEPT !.err = @ \o tool_call_notices(cfg, progress.steps)]
        streaming == progress.streaming_content
    IN  IF /\ streaming.some
           /\ streaming.val.is_streaming
           /\ str_len(streaming.val.text) # st.len
        THEN print_from(noticed, streaming.val.text, str_len(streaming.val.text))
        ELSE noticed

on_progress(cfg, st, progress) ==
    LET noticed == [st EXCEPT !.err = @ \o tool_call_notices(cfg, progress.steps)]
        streaming == progress.streaming_content
    IN  IF /\ streaming.some
           /\ streaming.val.is_streaming
           /\ str_len(streaming.val.text) > st.len
        THEN print_from(noticed, streaming.val.text, str_len(streaming.val.text))
        ELSE noticed

\* on_done printing the whole content, whatever was streamed before
on_done_prints_all(cfg, st, done) ==
    [st EXCEPT
        !.out = @ \o << done.content, <<NL>> >>,
        !.err = IF done.conversation_id.some
                THEN Append(@, <<"conversation_id", done.conversation_id.val>>)
                ELSE @]

on_done(cfg, st, done) ==
    LET printed == IF st.len < str_len(done.content)
                   THEN print_from(st, done.content, st.len)
                   ELSE st
    IN  IF printed.panicked THEN printed
        ELSE [printed EXCEPT
                !.out = Append(@, <<NL>>),
                !.err = IF done.conversation_id.some
                        THEN Append(@, <<"conversation_id", done.conversation_id.val>>)
                        ELSE @]

\* on_error writing the error on standard output
on_error_to_stdout(cfg, st, err) ==
    [st EXCEPT !.out = Append(@, <<NL, "error", err.message>>)]

on_error(cfg, st, err) ==
    [st EXCEPT !.err = Append(@, <<NL, "error", err.message>>)]

\* on_event reporting the events it does not know
on_event_reports_unknown(cfg, st, e) ==
    CASE e.ev = "Progress" -> on_progress(cfg, st, e.val)
      [] e.ev = "Done"     -> on_done(cfg, st, e.val)
      [] e.ev = "Error"    -> on_error(cfg, st, e.val)
      [] e.ev = "Unknown"  -> [st EXCEPT !.err = Append(@, <<"unknown event">>)]

on_event(cfg, st, e) ==
    CASE e.ev = "Progress" -> on_progress(cfg, st, e.val)
      [] e.ev = "Done"     -> on_done(cfg, st, e.val)
      [] e.ev = "Error"    -> on_error(cfg, st, e.val)
      [] e.ev = "Unknown"  -> st

(***************************************************************************)
(* api.rs: ApiClient::chat_streaming.                                      *)
(***************************************************************************)
ChatResponse(done) ==
    [content |-> done.content,
     conversation_id |-> done.conversation_id,
     conversation_history |-> done.conversation_history,
     queued |-> None]

\* ChatRequest without skip_serializing_if on conversation_id: None is
\* written as null
ChatRequest_no_skip(message, conv) ==
    JObj(Obj1("model", JStr("gpt-4o"))
         @@ Obj1("messages", JArr(<< JObj(Obj1("role", JStr("user"))
                                         @@ Obj1("content", JStr(message))) >>))
         @@ Obj1("conversation_id", IF conv.some THEN JStr(conv.val) ELSE JNull)
         @@ Obj1("stream", JBool(TRUE)))

\* api.rs:315-332, the request: ChatRequest serialised by serde, and the headers
ChatRequest(message, conv) ==
    JObj(Obj1("model", JStr("gpt-4o"))
         @@ Obj1("messages", JArr(<< JObj(Obj1("role", JStr("user"))
                                         @@ Obj1("content", JStr(message))) >>))
         @@ (IF conv.some THEN Obj1("conversation_id", JStr(conv.val)) ELSE <<>>)
         @@ Obj1("stream", JBool(TRUE)))

StreamingRequest(api_key, message, conv) ==
    [method |-> "POST",
     path |-> "chat/completions",
     headers |-> Obj1("Authorization", "Bearer " \o api_key)
                 @@ Obj1("Content-Type", "application/json")
                 @@ Obj1("Accept", "text/event-stream"),
     body |-> ChatRequest(message, conv)]

\* The state of one call: the event source, final_response, the sink's
\* state, the counters, and ret, the value returned once the call is over.
Call(source, final, sink, ndecoded, ncalls) ==
    [es |-> source, final_response |-> final, sink |-> sink,
     decoded |-> ndecoded, sink_calls |-> ncalls, ret |-> None]

\* handle_event that does not leave the loop on Done
handle_event_no_break(cfg, c, sse_event) ==
    LET error_message == IF sse_event.ev = "Error"
                         THEN Some(sse_event.val.message) ELSE None
        final == IF sse_event.ev = "Done"
                 THEN Some(ChatResponse(sse_event.val)) ELSE c.final_response
        sunk == on_event(cfg, c.sink, sse_event)
        called == [c EXCEPT !.final_response = final, !.sink = sunk,
                            !.sink_calls = @ + 1]
    IN  IF sunk.panicked THEN called
        ELSE IF error_message.some
        THEN [called EXCEPT !.es = "closed",
                            !.ret = Some(Err("Server error: " \o error_message.val))]
        ELSE called

\* handle_event that does not return on Error
handle_event_error_continues(cfg, c, sse_event) ==
    LET is_done == sse_event.ev = "Done"
        final == IF sse_event.ev = "Done"
                 THEN Some(ChatResponse(sse_event.val)) ELSE c.final_response
        sunk == on_event(cfg, c.sink, sse_event)
        called == [c EXCEPT !.final_response = final, !.sink = sunk,
                            !.sink_calls = @ + 1]
    IN  IF sunk.panicked THEN called
        ELSE IF is_done
        THEN [called EXCEPT !.es = "closed", !.ret = Some(Ok(final.val))]
        ELSE called

\* handle_event that returns the remote error without closing the source
handle_event_no_close(cfg, c, sse_event) ==
    LET is_done == sse_event.ev = "Done"
        error_message == IF sse_event.ev = "Error"
                         THEN Some(sse_event.val.message) ELSE None
        final == IF sse_event.ev = "Done"
                 THEN Some(ChatResponse(sse_event.val)) ELSE c.final_response
        sunk == on_event(cfg, c.sink, sse_event)
        called == [c EXCEPT !.final_response = final, !.sink = sunk,
                            !.sink_calls = @ + 1]
    IN  IF sunk.panicked THEN called
        ELSE IF is_done
        THEN [called EXCEPT !.es = "closed", !.ret = Some(Ok(final.val))]
        ELSE IF error_message.some
        THEN [called EXCEPT !.es = "dropped",
                            !.ret = Some(Err("Server error: " \o error_message.val))]
        ELSE called

\* handle_event that leaves the loop on Done without calling the sink
handle_event_done_skips_sink(cfg, c, sse_event) ==
    LET is_done == sse_event.ev = "Done"
        error_message == IF sse_event.ev = "Error"
                         THEN Some(sse_event.val.message) ELSE None
        final == IF sse_event.ev = "Done"
                 THEN Some(ChatResponse(sse_event.val)) ELSE c.final_response
        sunk == on_event(cfg, c.sink, sse_event)
        called == [c EXCEPT !.final_response = final, !.sink = sunk,
                            !.sink_calls = @ + 1]
    IN  IF is_done
        THEN [c EXCEPT !.final_response = final, !.es = "closed",
                       !.ret = Some(Ok(final.val))]
        ELSE IF sunk.panicked THEN called
        ELSE IF error_message.some
        THEN [called EXCEPT !.es = "closed",
                            !.ret = Some(Err("Server error: " \o error_message.val))]
        ELSE called

\* handle_event that takes a final response from a completed Progress event
handle_event_final_from_progress(cfg, c, sse_event) ==
    LET is_done == sse_event.ev = "Done"
        error_message == IF sse_event.ev = "Error"
                         THEN Some(sse_event.val.message) ELSE None
        final == IF sse_event.ev = "Done"
                 THEN Some(ChatResponse(sse_event.val))
                 ELSE IF sse_event.ev = "Progress" /\ sse_event.val.final_content.some
                 THEN Some([content |-> <<>>,
                            conversation_id |-> sse_event.val.conversation_id,
                            conversation_history |-> sse_event.val.conversation_history,
                            queued |-> None])
                 ELSE c.final_response
        sunk == on_event(cfg, c.sink, sse_event)
        called == [c EXCEPT !.final_response = final, !.sink = sunk,
                            !.sink_calls = @ + 1]
    IN  IF sunk.panicked THEN called
        ELSE IF is_done
        THEN [called EXCEPT !.es = "closed", !.ret = Some(Ok(final.val))]
        ELSE IF error_message.some
        THEN [called EXCEPT !.es = "closed",
                            !.ret = Some(Err("Server error: " \o error_message.val))]
        ELSE called

\* handle_event that leaves the loop on a Progress event marked complete
handle_event_complete_progress_breaks(cfg, c, sse_event) ==
    LET completed == sse_event.ev = "Progress" /\ sse_event.val.is_complete
        is_done == sse_event.ev = "Done" \/ completed
        error_message == IF sse_event.ev = "Error"
                         THEN Some(sse_event.val.message) ELSE None
        final == IF sse_event.ev = "Done"
                 THEN Some(ChatResponse(sse_event.val))
                 ELSE IF completed
                 THEN Some([content |-> <<>>,
                            conversation_id |-> sse_event.val.conversation_id,
                            conversation_history |-> sse_event.val.conversation_history,
                            queued |-> None])
                 ELSE c.final_response
        sunk == on_event(cfg, c.sink, sse_event)
        called == [c EXCEPT !.final_response = final, !.sink = sunk,
                            !.sink_calls = @ + 1]
    IN  IF sunk.panicked THEN called
        ELSE IF is_done
        THEN [called EXCEPT !.es = "closed", !.ret = Some(Ok(final.val))]
        ELSE IF error_message.some
        THEN [called EXCEPT !.es = "closed",
                            !.ret = Some(Err("Server error: " \o error_message.val))]
        ELSE called

\* api.rs:348-378, one decoded event
handle_event(cfg, c, sse_event) ==
    LET is_done == sse_event.ev = "Done"
        error_message == IF sse_event.ev = "Error"
                         THEN Some(sse_event.val.message) ELSE None
        final == IF sse_event.ev = "Done"
                 THEN Some(ChatResponse(sse_event.val)) ELSE c.final_response
        sunk == on_event(cfg, c.sink, sse_event)
        called == [c EXCEPT !.final_response = final, !.sink = sunk,
                            !.sink_calls = @ + 1]
    IN  IF sunk.panicked THEN called
        ELSE IF is_done
        THEN [called EXCEPT !.es = "closed", !.ret = Some(Ok(final.val))]
        ELSE IF error_message.some
        THEN [called EXCEPT !.es = "closed",
                            !.ret = Some(Err("Server error: " \o error_message.val))]
        ELSE called

\* loop_body that goes on reading after a transport failure
loop_body_retries(cfg, c, item) ==
    CASE item.k = "Open" -> c
      [] item.k = "Message" ->
            LET parsed == Parsed[item.data]
                counted == [c EXCEPT !.decoded = @ + 1]
            IN  IF parsed.some THEN handle_event(cfg, counted, parsed.val)
                ELSE counted
      [] item.k = "Err" -> c
      [] item.k = "None" ->
            [c EXCEPT !.es = "dropped",
                      !.ret = Some(IF c.final_response.some
                                   THEN Ok(c.final_response.val)
                                   ELSE Err("Stream ended without receiving a done event"))]

\* loop_body that returns an empty response when the source ends early
loop_body_end_is_ok(cfg, c, item) ==
    CASE item.k = "Open" -> c
      [] item.k = "Message" ->
            LET parsed == Parsed[item.data]
                counted == [c EXCEPT !.decoded = @ + 1]
            IN  IF parsed.some THEN handle_event(cfg, counted, parsed.val)
                ELSE counted
      [] item.k = "Err" ->
            [c EXCEPT !.es = "closed",
                      !.ret = Some(Err("SSE stream error: " \o item.err))]
      [] item.k = "None" ->
            [c EXCEPT !.es = "dropped",
                      !.ret = Some(Ok([content |-> <<>>, conversation_id |-> None,
                                       conversation_history |-> None,
                                       queued |-> None]))]

\* loop_body that takes a payload without an event for the end of the stream
loop_body_marker_ends(cfg, c, item) ==
    CASE item.k = "Open" -> c
      [] item.k = "Message" ->
            LET parsed == Parsed[item.data]
                counted == [c EXCEPT !.decoded = @ + 1]
            IN  IF parsed.some THEN handle_event(cfg, counted, parsed.val)
                ELSE [counted EXCEPT
                        !.es = "closed",
                        !.ret = Some(IF c.final_response.some
                                     THEN Ok(c.final_response.val)
                                     ELSE Err("Stream ended without receiving a done event"))]
      [] item.k = "Err" ->
            [c EXCEPT !.es = "closed",
                      !.ret = Some(Err("SSE stream error: " \o item.err))]
      [] item.k = "None" ->
            [c EXCEPT !.es = "dropped",
                      !.ret = Some(IF c.final_response.some
                                   THEN Ok(c.final_response.val)
                                   ELSE Err("Stream ended without receiving a done event"))]

\* api.rs:341-387, one turn of the while loop on the item es.next() yielded;
\* on None the loop is left and final_response decides the value returned
loop_body(cfg, c, item) ==
    CASE item.k = "Open" -> c
      [] item.k = "Message" ->
            LET parsed == Parsed[item.data]
                counted == [c EXCEPT !.decoded = @ + 1]
            IN  IF parsed.some THEN handle_event(cfg, counted, parsed.val)
                ELSE counted
      [] item.k = "Err" ->
            [c EXCEPT !.es = "closed",
                      !.ret = Some(Err("SSE stream error: " \o item.err))]
      [] item.k = "None" ->
            [c EXCEPT !.es = "dropped",
                      !.ret = Some(IF c.final_response.some
                                   THEN Ok(c.final_response.val)
                                   ELSE Err("Stream ended without receiving a done event"))]

\* the texts of the streaming Progress frames among the payloads decoded
streamed_text(item) ==
    IF item.k # "Message" THEN {}
    ELSE LET parsed == Parsed[item.data]
         IN  IF /\ parsed.some
                /\ parsed.val.ev = "Progress"
                /\ parsed.val.val.streaming_content.some
                /\ parsed.val.val.streaming_content.val.is_streaming
             THEN {parsed.val.val.streaming_content.val.text}
             ELSE {}

(***************************************************************************)
(* The streaming turn:  speakmcp send --stream <message>.                  *)
(***************************************************************************)
MessageText == "hello"

Configs == [api_key : {"", "sk-test"}, show_tool_calls : BOOLEAN]

HarnessIdle == frames = <<>> /\ applied = 0

\* no chat request is out and nothing has happened in the session yet
SessionIdle == in_flight = 0 /\ history = <<>>

\* the audio helper is not running
HelperIdle ==
    /\ cmd_rx = <<>>
    /\ audio_rx = <<>>
    /\ current_stream = None
    /\ current_session = None
    /\ lines_read = 0

\* send_message is entered with a configuration and with one of the
\* conversation ids given
Entered(ids) ==
    /\ config \in Configs
    /\ conversation_id \in ids
    /\ pc = "start"
    /\ request = None
    /\ es = "none"
    /\ pending = FALSE
    /\ event = NoEvent
    /\ fetched = 0
    /\ decoded = 0
    /\ sink_calls = 0
    /\ last_streaming_text_len = 0
    /\ final_response = None
    /\ stdout = <<>>
    /\ stderr = <<>>
    /\ result = None
    /\ streamed = {}
    /\ HarnessIdle
    /\ SessionIdle
    /\ HelperIdle

\* a turn that continues the conversation "conv0"; the id goes into the
\* request and is not read again (api.rs:321)
Init == Entered({Some("conv0")})

\* a turn that starts a conversation or continues one
AnyConversationInit == Entered({None, Some("conv0")})

\* main.rs:497 and api.rs:144-149: no client, and no request, without an API key
FromConfigFails ==
    /\ pc = "start"
    /\ config.api_key = ""
    /\ pc' = "exit1"
    /\ stderr' = Append(stderr, <<"Error", "API key not configured">>)
    /\ UNCHANGED << config, conversation_id, request, es, pending, event, fetched,
                    decoded, sink_calls, last_streaming_text_len, final_response,
                    stdout, result, streamed, frames, applied,
                    session_vars, helper_vars >>

\* StartStreaming that goes on with the cursor and the final response of
\* the turn before
StartStreaming_keeps_state ==
    /\ pc = "start"
    /\ config.api_key # ""
    /\ pc' = "streaming"
    /\ request' = Some(StreamingRequest(config.api_key, MessageText, conversation_id))
    /\ es' = "open"
    /\ UNCHANGED << config, conversation_id, pending, event, fetched, decoded,
                    sink_calls, last_streaming_text_len, final_response,
                    stdout, stderr, result, streamed, frames, applied,
                    session_vars, helper_vars >>

\* main.rs:497-504 and api.rs:313-338: the request is built and the event
\* source created; the cursor starts at 0 and there is no final response
StartStreaming ==
    /\ pc = "start"
    /\ config.api_key # ""
    /\ pc' = "streaming"
    /\ request' = Some(StreamingRequest(config.api_key, MessageText, conversation_id))
    /\ es' = "open"
    /\ last_streaming_text_len' = 0
    /\ final_response' = None
    /\ UNCHANGED << config, conversation_id, pending, event, fetched, decoded,
                    sink_calls, stdout, stderr, result, streamed, frames, applied,
                    session_vars, helper_vars >>

\* once the call is over the transport may still deliver an item, which
\* nobody reads
Deliver ==
    /\ pc \in {"exit0", "exit1", "panicked"}
    /\ request.some
    /\ ~pending
    /\ pending' = TRUE
    /\ UNCHANGED << config, conversation_id, pc, request, es, event, fetched,
                    decoded, sink_calls, last_streaming_text_len, final_response,
                    stdout, stderr, result, streamed, frames, applied,
                    session_vars, helper_vars >>

\* es.next().await yields the item the transport delivers; the loop body
\* runs on it; when the call returns, send_message reports an error and
\* exits 1 (main.rs:554-557)
EsNext(item) ==
    /\ pc = "streaming"
    /\ fetched < MaxFrames
    /\ LET c == loop_body(config,
                          Call(es, final_response,
                               SinkState(last_streaming_text_len, stdout, stderr),
                               decoded, sink_calls),
                          item)
       IN  /\ event' = item
           /\ fetched' = fetched + 1
           /\ decoded' = c.decoded
           /\ sink_calls' = c.sink_calls
           /\ final_response' = c.final_response
           /\ last_streaming_text_len' = c.sink.len
           /\ stdout' = c.sink.out
           /\ streamed' = streamed \cup streamed_text(item)
           /\ IF c.sink.panicked
              THEN /\ pc' = "panicked"
                   /\ es' = "dropped"
                   /\ result' = None
                   /\ stderr' = Append(c.sink.err, <<"panic", "not a char boundary">>)
              ELSE IF ~c.ret.some
              THEN /\ pc' = "streaming"
                   /\ es' = c.es
                   /\ result' = None
                   /\ stderr' = c.sink.err
              ELSE /\ pc' = IF c.ret.val.ok THEN "exit0" ELSE "exit1"
                   /\ es' = c.es
                   /\ result' = c.ret
                   /\ stderr' = IF c.ret.val.ok THEN c.sink.err
                                ELSE Append(c.sink.err, <<"error", c.ret.val.err>>)
    /\ UNCHANGED << config, conversation_id, request, pending, frames, applied,
                    session_vars, helper_vars >>

Fetch == \E item \in Items : EsNext(item)

\* the user's interrupt (SIGINT) while chat_streaming awaits es.next(): no
\* handler is installed and no future is raced against the loop, so the
\* process is terminated by the signal where it stands; es.close() is not
\* called, nothing is returned and nothing is reported
Interrupt ==
    /\ pc = "streaming"
    /\ pc' = "interrupted"
    /\ es' = "dropped"
    /\ UNCHANGED << config, conversation_id, request, pending, event, fetched,
                    decoded, sink_calls, last_streaming_text_len, final_response,
                    stdout, stderr, result, streamed, frames, applied,
                    session_vars, helper_vars >>

Next == FromConfigFails \/ StartStreaming \/ Deliver \/ Fetch

\* the turn, left to run to its end
Spec == Init /\ [][Next]_vars

InterruptibleNext == FromConfigFails \/ StartStreaming \/ Deliver \/ Fetch \/ Interrupt

\* the turn, with or without a conversation to continue
AnyConversationSpec == AnyConversationInit /\ [][Next]_vars

\* the turn, with a user who may interrupt it
InterruptibleSpec == Init /\ [][InterruptibleNext]_vars

(***************************************************************************)
(* api.rs, ApiClient::chat, and repl.rs, run: the interactive session.     *)
(* Each line typed is handled by one turn of run's loop; a chat message    *)
(* suspends the loop at client.chat(..).await until the response is in.    *)
(***************************************************************************)
\* most lines read by one session
MaxInputs == 3

Choice == TStruct(<< Field("message", "message",
                           TStruct(<< Field("content", "content", TString) >>)) >>)

RawChatResponse ==
    TStruct(<< Field("choices", "choices", TVec(Choice)),
               Field("conversation_id", "conversation_id", TOption(TString)),
               Field("conversation_history", "conversation_history",
                     TOption(TVec(ConversationMessage))) >>)

\* api.rs:251-259, the body of a chat request: stream is None and not written
RequestBody(message, conv) ==
    JObj(Obj1("model", JStr("gpt-4o"))
         @@ Obj1("messages", JArr(<< JObj(Obj1("role", JStr("user"))
                                         @@ Obj1("content", JStr(message))) >>))
         @@ (IF conv.some THEN Obj1("conversation_id", JStr(conv.val)) ELSE <<>>))

\* api.rs:261-268, the request of chat
ChatCall(api_key, message, conv) ==
    [method |-> "POST",
     path |-> "chat/completions",
     headers |-> Obj1("Authorization", "Bearer " \o api_key)
                 @@ Obj1("Content-Type", "application/json"),
     body |-> RequestBody(message, conv)]

\* what the transport hands back: no connection, or a status and a body
ConnectFailed == [k |-> "failed"]
Http(status, body) == [k |-> "http", status |-> status, body |-> body]

ReplyDoc(content, extra) ==
    JObj(Obj1("choices", JArr(<< JObj(Obj1("message",
                                    JObj(Obj1("content", JStr(content))))) >>))
         @@ extra)

\* a history whose last message holds a tool call
ToolHistoryDoc ==
    JArr(<< JObj(Obj1("role", JStr("user")) @@ Obj1("content", JStr("hello"))),
            JObj(Obj1("role", JStr("assistant")) @@ Obj1("content", JStr(""))
                 @@ Obj1("toolCalls", JArr(<< JObj(Obj1("name", JStr("search"))) >>))) >>)

Replies ==
    { ConnectFailed,
      Http(500, Garbage(FALSE)),
      Http(200, Garbage(FALSE)),
      Http(200, Json(FALSE, ReplyDoc("Hi", <<>>))),
      Http(200, Json(FALSE, ReplyDoc("Hi", Obj1("conversation_id", JStr("conv1"))))),
      Http(200, Json(FALSE, ReplyDoc("Hi", Obj1("conversation_id", JStr("conv2"))
                                           @@ Obj1("conversation_history",
                                                   ToolHistoryDoc)))),
      Http(200, Json(FALSE, ReplyDoc("Hi", Obj1("conversationId", JStr("conv9"))))),
      Http(200, Json(FALSE, JObj(Obj1("choices", JArr(<<>>))
                                 @@ Obj1("conversation_id", JStr("conv3"))))) }

\* api.rs:270-294, what chat makes of the transport's answer
chat(reply) ==
    IF reply.k = "failed" THEN Err("Failed to connect")
    ELSE IF reply.status # 200 THEN Err("API error")
    ELSE LET raw_response == from_str(RawChatResponse, reply.body)
         IN  IF ~raw_response.ok THEN Err("Failed to parse API response")
             ELSE IF raw_response.val.choices = <<>>
             THEN Err("API response missing choices")
             ELSE Ok([content |-> raw_response.val.choices[1].message.content,
                      conversation_id |-> raw_response.val.conversation_id,
                      conversation_history |-> raw_response.val.conversation_history,
                      queued |-> None])

\* the last n elements of a sequence, last first: iter().rev().take(n)
RevTake(seq, n) ==
    [i \in 1..(IF Len(seq) < n THEN Len(seq) ELSE n) |-> seq[Len(seq) + 1 - i]]

\* repl.rs:129-139
print_tool_calls(response) ==
    IF response.conversation_history.some
    THEN LET msgs == RevTake(response.conversation_history.val, 5)
             lines == [i \in DOMAIN msgs |->
                         IF msgs[i].tool_calls.some
                         THEN [j \in DOMAIN msgs[i].tool_calls.val |->
                                  <<"tool", msgs[i].tool_calls.val[j].name>>]
                         ELSE <<>>]
         IN  Concat(lines)
    ELSE <<>>

ReplConfigs ==
    [api_key : {"", "sk-test"}, show_tool_calls : BOOLEAN,
     default_conversation_id : {None, Some("conv0")}]

\* a line as read_line returns it: the text typed and the newline after it,
\* or nothing at the end of the input
Line(pad, text) == [pad |-> pad, k |-> "line", text |-> text]

InputTexts == {"", "/exit", "/quit", "/new", "/clear", "/help", "/status",
               "/bogus", MessageText}

Lines == {Line(TRUE, text) : text \in InputTexts} \cup {Line(FALSE, "")}

\* str::starts_with("/") on the texts above
StartsWithSlash(input) == input \in InputTexts \ {"", MessageText}

Prompt == << <<"you>">> >>

InputsRead == Cardinality({i \in DOMAIN history : history[i].k = "input"})

\* main.rs:325-327: the chat command enters repl::run
ReplInit ==
    /\ config \in ReplConfigs
    /\ conversation_id = None
    /\ pc = "repl"
    /\ request = None
    /\ es = "none"
    /\ pending = FALSE
    /\ event = NoEvent
    /\ fetched = 0
    /\ decoded = 0
    /\ sink_calls = 0
    /\ last_streaming_text_len = 0
    /\ final_response = None
    /\ stdout = <<>>
    /\ stderr = <<>>
    /\ result = None
    /\ streamed = {}
    /\ HarnessIdle
    /\ SessionIdle
    /\ HelperIdle

\* repl.rs:14-24: the client is made, or run fails without one; the
\* conversation id starts as the configured default and the first prompt
\* is printed
ReplEnter ==
    /\ pc = "repl"
    /\ IF config.api_key = ""
       THEN /\ pc' = "exit1"
            /\ stderr' = Append(stderr, <<"Error", "API key not configured">>)
            /\ UNCHANGED << conversation_id, stdout >>
       ELSE /\ pc' = "prompt"
            /\ conversation_id' = config.default_conversation_id
            /\ stdout' = stdout \o << <<"header">>, <<"help">> >> \o Prompt
            /\ UNCHANGED stderr
    /\ UNCHANGED << config, request, es, pending, event, fetched, decoded,
                    sink_calls, last_streaming_text_len, final_response, result,
                    streamed, frames, applied, session_vars, helper_vars >>

\* ReadLine that forgets the conversation on /status
ReadLine_status_forgets(line) ==
    /\ pc = "prompt"
    /\ InputsRead < MaxInputs
    /\ LET input == trim(line).text
       IN  /\ history' = Append(history, [k |-> "input", text |-> input])
           /\ CASE input = "" ->
                     /\ stdout' = stdout \o Prompt
                     /\ UNCHANGED << pc, conversation_id, request, in_flight >>
                [] input \in {"/exit", "/quit", "/q"} ->
                     /\ stdout' = Append(stdout, <<"Goodbye!">>)
                     /\ pc' = "exit0"
                     /\ UNCHANGED << conversation_id, request, in_flight >>
                [] input \in {"/new", "/clear", "/status"} ->
                     /\ conversation_id' = None
                     /\ stdout' = Append(stdout, <<"Started new conversation.">>)
                                  \o Prompt
                     /\ UNCHANGED << pc, request, in_flight >>
                [] input \in {"/help", "/?"} ->
                     /\ stdout' = Append(stdout, <<"help">>) \o Prompt
                     /\ UNCHANGED << pc, conversation_id, request, in_flight >>
                [] OTHER ->
                     IF StartsWithSlash(input)
                     THEN /\ stdout' = Append(stdout, <<"Unknown command", input>>)
                                       \o Prompt
                          /\ UNCHANGED << pc, conversation_id, request, in_flight >>
                     ELSE /\ stdout' = Append(stdout, <<"agent>">>)
                          /\ request' = Some(ChatCall(config.api_key, input,
                                                      conversation_id))
                          /\ in_flight' = in_flight + 1
                          /\ pc' = "awaiting"
                          /\ UNCHANGED conversation_id
    /\ UNCHANGED << config, es, pending, event, fetched, decoded, sink_calls,
                    last_streaming_text_len, final_response, stderr, result,
                    streamed, frames, applied, helper_vars >>

\* repl.rs:22-65: one line is read and handled, up to the next prompt, the
\* end of the session, or the request of client.chat
ReadLine(line) ==
    /\ pc = "prompt"
    /\ InputsRead < MaxInputs
    /\ LET input == trim(line).text
       IN  /\ history' = Append(history, [k |-> "input", text |-> input])
           /\ CASE input = "" ->
                     /\ stdout' = stdout \o Prompt
                     /\ UNCHANGED << pc, conversation_id, request, in_flight >>
                [] input \in {"/exit", "/quit", "/q"} ->
                     /\ stdout' = Append(stdout, <<"Goodbye!">>)
                     /\ pc' = "exit0"
                     /\ UNCHANGED << conversation_id, request, in_flight >>
                [] input \in {"/new", "/clear"} ->
                     /\ conversation_id' = None
                     /\ stdout' = Append(stdout, <<"Started new conversation.">>)
                                  \o Prompt
                     /\ UNCHANGED << pc, request, in_flight >>
                [] input \in {"/help", "/?"} ->
                     /\ stdout' = Append(stdout, <<"help">>) \o Prompt
                     /\ UNCHANGED << pc, conversation_id, request, in_flight >>
                [] input = "/status" ->
                     /\ stdout' = Append(stdout,
                                         <<"Status",
                                           IF conversation_id.some
                                           THEN conversation_id.val ELSE "(none)">>)
                                  \o Prompt
                     /\ UNCHANGED << pc, conversation_id, request, in_flight >>
                [] OTHER ->
                     IF StartsWithSlash(input)
                     THEN /\ stdout' = Append(stdout, <<"Unknown command", input>>)
                                       \o Prompt
                          /\ UNCHANGED << pc, conversation_id, request, in_flight >>
                     ELSE /\ stdout' = Append(stdout, <<"agent>">>)
                          /\ request' = Some(ChatCall(config.api_key, input,
                                                      conversation_id))
                          /\ in_flight' = in_flight + 1
                          /\ pc' = "awaiting"
                          /\ UNCHANGED conversation_id
    /\ UNCHANGED << config, es, pending, event, fetched, decoded, sink_calls,
                    last_streaming_text_len, final_response, stderr, result,
                    streamed, frames, applied, helper_vars >>

\* repl.rs:65-89: client.chat returns and the loop goes back to the prompt
ChatReturns(reply) ==
    /\ pc = "awaiting"
    /\ LET returned == chat(reply)
       IN  /\ history' = Append(history, [k |-> "reply", val |-> returned])
           /\ IF returned.ok
              THEN /\ conversation_id' = IF returned.val.conversation_id.some
                                         THEN returned.val.conversation_id
                                         ELSE conversation_id
                   /\ stdout' = stdout
                                \o (IF config.show_tool_calls
                                    THEN print_tool_calls(returned.val) ELSE <<>>)
                                \o << <<returned.val.content>> >>
                                \o (IF returned.val.queued.some /\ returned.val.queued.val
                                    THEN << <<"(message was queued for processing)">> >>
                                    ELSE <<>>)
                                \o << <<NL>> >> \o Prompt
              ELSE /\ conversation_id' = conversation_id
                   /\ stdout' = stdout \o << <<"Error", returned.err>>, <<NL>> >>
                                \o Prompt
    /\ in_flight' = in_flight - 1
    /\ pc' = "prompt"
    /\ UNCHANGED << config, request, es, pending, event, fetched, decoded,
                    sink_calls, last_streaming_text_len, final_response, stderr,
                    result, streamed, frames, applied, helper_vars >>

ReplNext ==
    \/ ReplEnter
    \/ \E line \in Lines : ReadLine(line)
    \/ \E reply \in Replies : ChatReturns(reply)

\* the interactive session
ReplSpec == ReplInit /\ [][ReplNext]_vars

(***************************************************************************)
(* Turn after turn: the chat turns of an interactive session, or the       *)
(* streaming turns of the send command run again and again.  What a turn   *)
(* left in last_streaming_text_len and final_response stays there until    *)
(* the next turn assigns them.                                             *)
(***************************************************************************)
\* most streaming turns in a row
MaxTurns == 2

TurnsBegun == Cardinality({i \in DOMAIN history : history[i].k = "turn"})

TurnsInit ==
    /\ \/ ReplInit
       \/ Entered({Some("conv0")})
    /\ config.api_key = "sk-test"
    /\ config.show_tool_calls

\* main.rs:329-352: the send command is run once more after a streaming
\* turn has ended; the new process has its own output and event source
NextTurn ==
    /\ pc \in {"exit0", "exit1", "panicked"}
    /\ es # "none"
    /\ TurnsBegun + 1 < MaxTurns
    /\ history' = Append(history, [k |-> "turn"])
    /\ pc' = "start"
    /\ request' = None
    /\ es' = "none"
    /\ pending' = FALSE
    /\ event' = NoEvent
    /\ fetched' = 0
    /\ decoded' = 0
    /\ sink_calls' = 0
    /\ stdout' = <<>>
    /\ stderr' = <<>>
    /\ result' = None
    /\ streamed' = {}
    /\ UNCHANGED << config, conversation_id, last_streaming_text_len,
                    final_response, frames, applied, in_flight, helper_vars >>

\* the items the event source yields in these turns: streamed text, a
\* Done and an Error event, a transport failure and the end of the source
TurnItems ==
    { EvMessage(Json(FALSE, Envelope("progress", ProgressDoc(<<>>, FALSE,
                  Obj1("streamingContent", StreamingDoc(<<"a">>, TRUE)))))),
      EvMessage(Json(FALSE, Envelope("progress", ProgressDoc(<<>>, FALSE,
                  Obj1("streamingContent", StreamingDoc(<<"W">>, TRUE)))))),
      EvMessage(SnakeCaseDoneFrame),
      EvMessage(Json(FALSE, Envelope("error",
                  JObj(Obj1("message", JStr("rate limited")))))),
      EvErr("timed out"),
      EvNone }

FetchTurn == \E item \in TurnItems : EsNext(item)

TurnsNext ==
    \/ StartStreaming
    \/ FetchTurn
    \/ NextTurn
    \/ ReplEnter
    \/ \E line \in Lines : ReadLine(line)
    \/ \E reply \in Replies : ChatReturns(reply)

TurnsSpec == TurnsInit /\ [][TurnsNext]_vars

(***************************************************************************)
(* The requests of the other commands: api.rs, ApiClient::get, ::post and  *)
(* ::delete as the handlers under commands/ call them, the one-shot chat   *)
(* of send, and main.rs, check_status, which builds its own request.       *)
(* commands/presets.rs and commands/tools.rs call ApiClient::patch and     *)
(* ::post_base, whose bodies are not part of api.rs as it stands here.     *)
(***************************************************************************)
\* most requests one command makes
MaxRequests == 2

\* api.rs:174-180 without the Authorization header
get_without_header(api_key, path) ==
    [method |-> "GET", path |-> path, headers |-> <<>>]

\* api.rs:174-180
get(api_key, path) ==
    [method |-> "GET", path |-> path,
     headers |-> Obj1("Authorization", "Bearer " \o api_key)]

\* api.rs:202-210
post(api_key, path, body) ==
    [method |-> "POST", path |-> path,
     headers |-> Obj1("Authorization", "Bearer " \o api_key)
                 @@ Obj1("Content-Type", "application/json"),
     body |-> body]

\* api.rs:228-234
delete(api_key, path) ==
    [method |-> "DELETE", path |-> path,
     headers |-> Obj1("Authorization", "Bearer " \o api_key)]

\* commands/presets.rs:76, the request behind client.patch
patch(api_key, path, body) ==
    [method |-> "PATCH", path |-> path,
     headers |-> Obj1("Authorization", "Bearer " \o api_key)
                 @@ Obj1("Content-Type", "application/json"),
     body |-> body]

\* commands/tools.rs:29 and 91, the request behind client.post_base
post_base(api_key, path, body) ==
    [method |-> "POST", path |-> path,
     headers |-> Obj1("Authorization", "Bearer " \o api_key)
                 @@ Obj1("Content-Type", "application/json"),
     body |-> body]

\* main.rs:680-683
StatusRequest(api_key) ==
    [method |-> "GET", path |-> "models",
     headers |-> Obj1("Authorization", "Bearer " \o api_key)]

\* calls the command handlers make on the client
Calls ==
    { [op |-> "get", path |-> "skills"],
      [op |-> "get", path |-> "v1/conversations"],
      [op |-> "post", path |-> "emergency-stop"],
      [op |-> "post", path |-> "settings"],
      [op |-> "delete", path |-> "v1/memories/m1"],
      [op |-> "patch", path |-> "settings"],
      [op |-> "post_base", path |-> "mcp/tools/list"],
      [op |-> "chat", path |-> "chat/completions"] }

RequestOf(api_key, call) ==
    CASE call.op = "get"       -> get(api_key, call.path)
      [] call.op = "post"      -> post(api_key, call.path, JObj(<<>>))
      [] call.op = "delete"    -> delete(api_key, call.path)
      [] call.op = "patch"     -> patch(api_key, call.path, JObj(<<>>))
      [] call.op = "post_base" -> post_base(api_key, call.path, JObj(<<>>))
      [] call.op = "chat"      -> ChatCall(api_key, MessageText, None)

CallReplies ==
    { ConnectFailed, Http(401, Garbage(FALSE)), Http(500, Garbage(FALSE)),
      Http(200, Garbage(FALSE)), Http(200, Json(FALSE, JObj(<<>>))),
      Http(200, Json(FALSE, ReplyDoc("Hi", <<>>))) }

\* api.rs:182-193, 212-223, 236-244, 270-294: what the call returns
Returned(call, reply) ==
    IF call.op = "chat" THEN chat(reply)
    ELSE IF reply.k = "failed" THEN Err("Failed to connect")
    ELSE IF reply.status # 200 THEN Err("API error")
    ELSE IF call.op = "delete" THEN Ok(JNull)
    ELSE LET parsed == from_str(TValue, reply.body)
         IN  IF parsed.ok THEN Ok(parsed.val) ELSE Err("Failed to parse API response")

RequestsMade == Cardinality({i \in DOMAIN history : history[i].k = "request"})

\* main.rs:325-420: the command line names the chat session, a streaming
\* send, the status check or one of the other commands
CommandInit ==
    /\ config \in Configs
    /\ conversation_id = None
    /\ pc \in {"command", "status"}
    /\ request = None
    /\ es = "none"
    /\ pending = FALSE
    /\ event = NoEvent
    /\ fetched = 0
    /\ decoded = 0
    /\ sink_calls = 0
    /\ last_streaming_text_len = 0
    /\ final_response = None
    /\ stdout = <<>>
    /\ stderr = <<>>
    /\ result = None
    /\ streamed = {}
    /\ HarnessIdle
    /\ SessionIdle
    /\ HelperIdle

CliInit == ReplInit \/ Entered({Some("conv0")}) \/ CommandInit

\* the first line of every handler under commands/ and of the one-shot
\* send: ApiClient::from_config(config)?, api.rs:144-161
FromConfig ==
    /\ pc = "command"
    /\ IF config.api_key = ""
       THEN /\ pc' = "exit1"
            /\ stderr' = Append(stderr, <<"Error", "API key not configured">>)
       ELSE /\ pc' = "client"
            /\ UNCHANGED stderr
    /\ UNCHANGED << config, conversation_id, request, es, pending, event, fetched,
                    decoded, sink_calls, last_streaming_text_len, final_response,
                    stdout, result, streamed, frames, applied,
                    session_vars, helper_vars >>

\* one call on the client: the request is sent, and the handler goes on
\* with the value returned or fails with the error
ClientCall(call, reply) ==
    /\ pc = "client"
    /\ RequestsMade < MaxRequests
    /\ LET returned == Returned(call, reply)
       IN  /\ request' = Some(RequestOf(config.api_key, call))
           /\ history' = Append(history, [k |-> "request", req |-> request'.val,
                                          ok |-> returned.ok])
           /\ IF returned.ok
              THEN /\ pc' = "client"
                   /\ stdout' = Append(stdout, <<call.op, call.path>>)
                   /\ UNCHANGED stderr
              ELSE /\ pc' = "exit1"
                   /\ stderr' = Append(stderr, <<"Error", returned.err>>)
                   /\ UNCHANGED stdout
    /\ UNCHANGED << config, conversation_id, es, pending, event, fetched, decoded,
                    sink_calls, last_streaming_text_len, final_response, result,
                    streamed, frames, applied, in_flight, helper_vars >>

\* main.rs:662-705, check_status
CheckStatus(reply) ==
    /\ pc = "status"
    /\ pc' = "exit0"
    /\ IF config.api_key = ""
       THEN /\ stdout' = stdout \o << <<"Checking connection...">>,
                                      <<"warning", "API key not configured">> >>
            /\ UNCHANGED << request, history >>
       ELSE /\ request' = Some(StatusRequest(config.api_key))
            /\ history' = Append(history, [k |-> "request", req |-> request'.val,
                                           ok |-> reply.k = "http"])
            /\ stdout' = stdout \o << <<"Checking connection...">>,
                                      IF reply.k = "failed"
                                      THEN <<"Could not connect">>
                                      ELSE IF reply.status = 200
                                      THEN <<"Authentication successful">>
                                      ELSE IF reply.status = 401
                                      THEN <<"Authentication failed">>
                                      ELSE <<"Server returned status">> >>
    /\ UNCHANGED << config, conversation_id, es, pending, event, fetched, decoded,
                    sink_calls, last_streaming_text_len, final_response, stderr,
                    result, streamed, frames, applied, in_flight, helper_vars >>

CliNext ==
    \/ FromConfigFails
    \/ StartStreaming
    \/ FetchTurn
    \/ ReplEnter
    \/ \E line \in Lines : ReadLine(line)
    \/ \E reply \in Replies : ChatReturns(reply)
    \/ FromConfig
    \/ \E call \in Calls, reply \in CallReplies : ClientCall(call, reply)
    \/ \E reply \in CallReplies : CheckStatus(reply)

\* the command-line client, whatever the command
CliSpec == CliInit /\ [][CliNext]_vars

(***************************************************************************)
(* speakmcp-audio/src/main.rs: the audio capture helper.  Three threads:   *)
(* the stdin reader, which parses command lines and sends them on cmd_tx;  *)
(* the capture callback of the current stream, which numbers the chunks    *)
(* and sends them on audio_tx; and main's loop, which writes the chunks    *)
(* received and handles one command at a time.  pc is the position of      *)
(* main's loop: "flush" at the top, "recv" at recv_timeout, "exited".      *)
(***************************************************************************)
\* most lines the helper reads from its standard input
MaxLines == 3
\* most chunks one capture produces
MaxChunks == 2

SessionIds == {"s1", "s2"}

\* the lines on standard input: commands, well formed or not, and others
HelperLines ==
    LET typed(type, extra) == JObj(Obj1("type", JStr(type)) @@ extra)
        id(s) == Obj1("id", JStr(s))
    IN  {Json(TRUE, typed("start_capture", id(s) @@ Obj1("kind", JStr("mic")))) :
            s \in SessionIds}
        \cup {Json(TRUE, typed("stop_capture", id(s))) : s \in SessionIds}
        \cup { Json(TRUE, typed("shutdown", <<>>)),
               Json(TRUE, typed("start_capture", id("s1"))),
               Json(TRUE, typed("pause_capture", id("s1"))),
               Garbage(TRUE), Blank(TRUE) }

\* main.rs:12-21 and 172: serde_json::from_str::<Command>, an enum tagged
\* by the key "type"
Command(line) ==
    IF line.k # "json" \/ line.doc.t # "obj" THEN [ok |-> FALSE]
    ELSE IF "type" \notin DOMAIN line.doc.v \/ line.doc.v["type"].t # "str"
    THEN [ok |-> FALSE]
    ELSE LET tag == line.doc.v["type"].v
             fields == CASE tag = "start_capture" ->
                               << Field("id", "id", TString),
                                  Field("kind", "kind", TString) >>
                         [] tag = "stop_capture" -> << Field("id", "id", TString) >>
                         [] OTHER -> <<>>
             parsed == from_value(TStruct(fields), line.doc)
         IN  IF tag \notin {"start_capture", "stop_capture", "shutdown"}
             THEN [ok |-> FALSE]
             ELSE IF ~parsed.ok THEN [ok |-> FALSE]
             ELSE [ok |-> TRUE, val |-> Obj1("type", tag) @@ parsed.val]

Disconnected == Obj1("type", "disconnected")

\* main.rs:76-82, the chunk the callback builds
AudioChunk(session_id, sequence) ==
    [session_id |-> session_id, sequence |-> sequence, sample_rate |-> 48000,
     channels |-> 1, data |-> "pcm"]

\* main.rs:197-206, the line written for a chunk
ChunkLine(chunk) ==
    [type |-> "audio_chunk", id |-> chunk.session_id, sequence |-> chunk.sequence,
     sampleRate |-> chunk.sample_rate, channels |-> chunk.channels,
     encoding |-> "pcm_s16le", data |-> <<"base64", chunk.data>>]

\* main.rs:212-217, 227-232, 241-246, the line written for an error
ErrorLine(id, code) == [type |-> "error", id |-> id, code |-> code]

\* main.rs:39-150: what start_capture returns depends on the input device
StartOutcomes ==
    {Ok("stream"), Err("No default input device available"),
     Err("Failed to build input stream")}

\* main.rs:152-192
HelperInit ==
    /\ config = [api_key |-> "", show_tool_calls |-> FALSE]
    /\ conversation_id = None
    /\ pc = "flush"
    /\ request = None
    /\ es = "none"
    /\ pending = FALSE
    /\ event = NoEvent
    /\ fetched = 0
    /\ decoded = 0
    /\ sink_calls = 0
    /\ last_streaming_text_len = 0
    /\ final_response = None
    /\ stdout = <<>>
    /\ stderr = <<>>
    /\ result = None
    /\ streamed = {}
    /\ HarnessIdle
    /\ SessionIdle
    /\ HelperIdle

\* main.rs:157-189: the stdin thread reads one line
StdinLine(line) ==
    /\ pc # "exited"
    /\ lines_read < MaxLines
    /\ Disconnected \notin Range(cmd_rx)
    /\ lines_read' = lines_read + 1
    /\ LET trimmed == trim(line)
           cmd == Command(trimmed)
       IN  IF trimmed.k = "blank"
           THEN UNCHANGED << cmd_rx, stdout, stderr >>
           ELSE IF cmd.ok
           THEN /\ cmd_rx' = Append(cmd_rx, cmd.val)
                /\ UNCHANGED << stdout, stderr >>
           ELSE /\ stderr' = Append(stderr, <<"[AUDIO] Failed to parse command">>)
                /\ stdout' = Append(stdout, [type |-> "error", code |-> "BAD_REQUEST"])
                /\ UNCHANGED cmd_rx
    /\ UNCHANGED << config, conversation_id, pc, request, es, pending, event,
                    fetched, decoded, sink_calls, last_streaming_text_len,
                    final_response, result, streamed, frames, applied,
                    session_vars, audio_rx, current_stream, current_session >>

\* main.rs:159 and 189: standard input ends, the thread returns and cmd_tx
\* is dropped; the receiver sees it once the commands sent are taken
StdinEnds ==
    /\ pc # "exited"
    /\ Disconnected \notin Range(cmd_rx)
    /\ cmd_rx' = Append(cmd_rx, Disconnected)
    /\ UNCHANGED << config, conversation_id, pc, request, es, pending, event,
                    fetched, decoded, sink_calls, last_streaming_text_len,
                    final_response, stdout, stderr, result, streamed, frames,
                    applied, session_vars, audio_rx, current_stream,
                    current_session, lines_read >>

\* main.rs:69-84: the callback of the stream that is playing takes the next
\* sequence number and sends the chunk
AudioCallback ==
    /\ pc # "exited"
    /\ current_stream.some
    /\ current_stream.val.seq < MaxChunks
    /\ audio_rx' = Append(audio_rx, AudioChunk(current_stream.val.session_id,
                                               current_stream.val.seq))
    /\ current_stream' = Some([current_stream.val EXCEPT !.seq = @ + 1])
    /\ UNCHANGED << config, conversation_id, pc, request, es, pending, event,
                    fetched, decoded, sink_calls, last_streaming_text_len,
                    final_response, stdout, stderr, result, streamed, frames,
                    applied, session_vars, cmd_rx, current_session, lines_read >>

\* Flush that takes the chunk sent last
Flush_takes_last ==
    /\ pc = "flush"
    /\ IF audio_rx # <<>>
       THEN /\ stdout' = Append(stdout, ChunkLine(audio_rx[Len(audio_rx)]))
            /\ audio_rx' = SubSeq(audio_rx, 1, Len(audio_rx) - 1)
            /\ UNCHANGED pc
       ELSE /\ pc' = "recv"
            /\ UNCHANGED << stdout, audio_rx >>
    /\ UNCHANGED << config, conversation_id, request, es, pending, event, fetched,
                    decoded, sink_calls, last_streaming_text_len, final_response,
                    stderr, result, streamed, frames, applied, session_vars,
                    cmd_rx, current_stream, current_session, lines_read >>

\* main.rs:196-207: try_recv yields the chunk sent first, which is written,
\* or nothing, and the loop goes on to recv_timeout
Flush ==
    /\ pc = "flush"
    /\ IF audio_rx # <<>>
       THEN /\ stdout' = Append(stdout, ChunkLine(Head(audio_rx)))
            /\ audio_rx' = Tail(audio_rx)
            /\ UNCHANGED pc
       ELSE /\ pc' = "recv"
            /\ UNCHANGED << stdout, audio_rx >>
    /\ UNCHANGED << config, conversation_id, request, es, pending, event, fetched,
                    decoded, sink_calls, last_streaming_text_len, final_response,
                    stderr, result, streamed, frames, applied, session_vars,
                    cmd_rx, current_stream, current_session, lines_read >>

\* Recv that stops the capture only for the id of its session
Recv_stop_checks_id(outcome) ==
    /\ pc = "recv"
    /\ IF cmd_rx = <<>>
       THEN /\ pc' = "flush"
            /\ UNCHANGED << cmd_rx, current_stream, current_session, stdout >>
       ELSE LET cmd == Head(cmd_rx)
            IN  CASE cmd.type = "disconnected" ->
                       /\ pc' = "exited"
                       /\ UNCHANGED << cmd_rx, current_stream, current_session,
                                       stdout >>
                  [] cmd.type = "shutdown" ->
                       /\ pc' = "exited"
                       /\ cmd_rx' = Tail(cmd_rx)
                       /\ UNCHANGED << current_stream, current_session, stdout >>
                  [] cmd.type = "start_capture" ->
                       /\ pc' = "flush"
                       /\ cmd_rx' = Tail(cmd_rx)
                       /\ IF current_stream.some
                          THEN /\ stdout' = Append(stdout,
                                               ErrorLine(cmd.id, "ALREADY_CAPTURING"))
                               /\ UNCHANGED << current_stream, current_session >>
                          ELSE IF outcome.ok
                          THEN /\ current_stream' = Some([session_id |-> cmd.id,
                                                          seq |-> 0])
                               /\ current_session' = Some(cmd.id)
                               /\ UNCHANGED stdout
                          ELSE /\ stdout' = Append(stdout,
                                               ErrorLine(cmd.id, "START_FAILED"))
                               /\ UNCHANGED << current_stream, current_session >>
                  [] cmd.type = "stop_capture" ->
                       /\ pc' = "flush"
                       /\ cmd_rx' = Tail(cmd_rx)
                       /\ IF current_stream.some /\ current_session = Some(cmd.id)
                          THEN /\ current_stream' = None
                               /\ current_session' = None
                               /\ UNCHANGED stdout
                          ELSE /\ stdout' = Append(stdout,
                                               ErrorLine(cmd.id, "NOT_CAPTURING"))
                               /\ UNCHANGED << current_stream, current_session >>
    /\ UNCHANGED << config, conversation_id, request, es, pending, event, fetched,
                    decoded, sink_calls, last_streaming_text_len, final_response,
                    stderr, result, streamed, frames, applied, session_vars,
                    audio_rx, lines_read >>

\* main.rs:209-259: recv_timeout yields the command sent first, which is
\* handled, or times out
Recv(outcome) ==
    /\ pc = "recv"
    /\ IF cmd_rx = <<>>
       THEN /\ pc' = "flush"
            /\ UNCHANGED << cmd_rx, current_stream, current_session, stdout >>
       ELSE LET cmd == Head(cmd_rx)
            IN  CASE cmd.type = "disconnected" ->
                       /\ pc' = "exited"
                       /\ UNCHANGED << cmd_rx, current_stream, current_session,
                                       stdout >>
                  [] cmd.type = "shutdown" ->
                       /\ pc' = "exited"
                       /\ cmd_rx' = Tail(cmd_rx)
                       /\ UNCHANGED << current_stream, current_session, stdout >>
                  [] cmd.type = "start_capture" ->
                       /\ pc' = "flush"
                       /\ cmd_rx' = Tail(cmd_rx)
                       /\ IF current_stream.some
                          THEN /\ stdout' = Append(stdout,
                                               ErrorLine(cmd.id, "ALREADY_CAPTURING"))
                               /\ UNCHANGED << current_stream, current_session >>
                          ELSE IF outcome.ok
                          THEN /\ current_stream' = Some([session_id |-> cmd.id,
                                                          seq |-> 0])
                               /\ current_session' = Some(cmd.id)
                               /\ UNCHANGED stdout
                          ELSE /\ stdout' = Append(stdout,
                                               ErrorLine(cmd.id, "START_FAILED"))
                               /\ UNCHANGED << current_stream, current_session >>
                  [] cmd.type = "stop_capture" ->
                       /\ pc' = "flush"
                       /\ cmd_rx' = Tail(cmd_rx)
                       /\ IF current_stream.some
                          THEN /\ current_stream' = None
                               /\ current_session' = None
                               /\ UNCHANGED stdout
                          ELSE /\ stdout' = Append(stdout,
                                               ErrorLine(cmd.id, "NOT_CAPTURING"))
                               /\ UNCHANGED << current_stream, current_session >>
    /\ UNCHANGED << config, conversation_id, request, es, pending, event, fetched,
                    decoded, sink_calls, last_streaming_text_len, final_response,
                    stderr, result, streamed, frames, applied, session_vars,
                    audio_rx, lines_read >>

HelperNext ==
    \/ \E line \in HelperLines : StdinLine(line)
    \/ StdinEnds
    \/ AudioCallback
    \/ Flush
    \/ \E outcome \in StartOutcomes : Recv(outcome)

\* the audio helper
HelperSpec == HelperInit /\ [][HelperNext]_vars

(***************************************************************************)
(* The sink on its own: send_message's closure applied to any sequence of  *)
(* Progress events, from the cursor's initial value.                       *)
(***************************************************************************)
Decode(payloads) == {parse_sse_event(p).val : p \in payloads}

HarnessEvents ==
    Decode(TextFrames)
    \cup Decode({ Json(FALSE, Envelope("progress", ProgressDoc(<<>>, FALSE, <<>>))),
                  Json(FALSE, Envelope("progress", ProgressDoc(
                      << StepDoc("running", Obj1("toolCall", ToolCallDoc("search"))) >>,
                      FALSE, <<>>))) })

SinkInit ==
    /\ config = [api_key |-> "sk-test", show_tool_calls |-> TRUE]
    /\ conversation_id = None
    /\ pc = "sink"
    /\ request = None
    /\ es = "none"
    /\ pending = FALSE
    /\ event = NoEvent
    /\ fetched = 0
    /\ decoded = 0
    /\ sink_calls = 0
    /\ last_streaming_text_len = 0
    /\ final_response = None
    /\ stdout = <<>>
    /\ stderr = <<>>
    /\ result = None
    /\ streamed = {}
    /\ frames = <<>>
    /\ applied = 0
    /\ SessionIdle
    /\ HelperIdle

\* the closure is called with one more event e
SinkApply(e) ==
    /\ pc = "sink"
    /\ applied < MaxFrames
    /\ LET st == on_event(config,
                          SinkState(last_streaming_text_len, stdout, stderr), e)
       IN  /\ frames' = Append(frames, e)
           /\ applied' = applied + 1
           /\ sink_calls' = sink_calls + 1
           /\ last_streaming_text_len' = st.len
           /\ stdout' = st.out
           /\ stderr' = st.err
           /\ pc' = IF st.panicked THEN "panicked" ELSE "sink"
    /\ UNCHANGED << config, conversation_id, request, es, pending, event, fetched,
                    decoded, final_response, result, streamed,
                    session_vars, helper_vars >>

SinkNext == \E e \in HarnessEvents : SinkApply(e)

SinkSpec == SinkInit /\ [][SinkNext]_vars

(***************************************************************************)
(* Vocabulary of the properties.                                           *)
(***************************************************************************)
\* the event an item decodes to, if it decodes to one
EventOf(item) ==
    IF item.k = "Message" THEN Parsed[item.data] ELSE None

IsEvent(item, kind) == EventOf(item).some /\ EventOf(item).val.ev = kind

\* the payload of the event an item decodes to
Payload(item) == EventOf(item).val.val

\* this step is one turn of chat_streaming's loop
Fetched == fetched' = fetched + 1

\* the text written to standard output, without the newline Done adds
TextPieces == SelectSeq(stdout, LAMBDA piece : piece # <<NL>>)

PrimaryText == Concat(TextPieces)

Suffixes(s) == {SubSeq(s, k + 1, Len(s)) : k \in 0..Len(s)}

HasText(e) == e.ev = "Progress" /\ e.val.streaming_content.some

TextOf(e) == e.val.streaming_content.val.text

\* a Done or an Error event has been applied
TerminalApplied == IsEvent(event, "Done") \/ IsEvent(event, "Error")

(***************************************************************************)
(* C1: in a turn that ends with a Done event, the text written to standard *)
(* output, piece after piece, is the Done event's content.                 *)
(***************************************************************************)
\* C1 as stated, for any turn that ends with Done
C1_AnyTurnPrintsContent ==
    IsEvent(event, "Done") =>
        /\ pc = "exit0"
        /\ PrimaryText = Payload(event).content

\* C1 amended: provided every text streamed by a Progress frame (streaming
\* content present, is_streaming true) is a prefix of the Done content, the
\* text written to standard output is exactly the Done content
C1_PrefixTurnPrintsContent ==
    (/\ IsEvent(event, "Done")
     /\ \A t \in streamed : IsPrefix(t, Payload(event).content))
    => /\ pc = "exit0"
       /\ PrimaryText = Payload(event).content
       /\ stdout = Append(TextPieces, <<NL>>)

C1_Witness ==
    /\ IsEvent(event, "Done")
    /\ \A t \in streamed : IsPrefix(t, Payload(event).content)
    /\ streamed # {}
    /\ Len(TextPieces) >= 2
    /\ pc = "exit0"

(***************************************************************************)
(* C2: once a Done or an Error event has been applied the turn is over for *)
(* good: nothing is fetched, decoded or passed to the sink any more, and   *)
(* the cursor, the outputs and the result no longer change.                *)
(***************************************************************************)
C2_TerminatedStays ==
    [][TerminalApplied =>
        UNCHANGED << pc, event, fetched, decoded, sink_calls,
                     last_streaming_text_len, final_response, stdout, stderr,
                     result >>]_vars

\* a terminal event has been applied and the source holds a later item
C2_Witness ==
    /\ TerminalApplied
    /\ pending

(***************************************************************************)
(* C3: a Done event whose content is L bytes long, arriving with the       *)
(* cursor at p < L, makes the sink write the last L - p bytes of the       *)
(* content once, and the call returns a response with the Done content.    *)
(***************************************************************************)
C3_DoneEmitsRemainder ==
    [][(/\ Fetched
        /\ IsEvent(event', "Done")
        /\ last_streaming_text_len < str_len(Payload(event').content))
       => LET content == Payload(event').content
          IN  /\ \E suffix \in Suffixes(content) :
                    /\ str_len(suffix) = str_len(content) - last_streaming_text_len
                    /\ stdout' = stdout \o << suffix, <<NL>> >>
              /\ result'.some
              /\ result'.val.ok
              /\ result'.val.val.content = content]_vars

(***************************************************************************)
(* C4: for a sequence of Progress frames whose streamed text never gets    *)
(* shorter, the suffixes written add up to the text of the last frame.     *)
(***************************************************************************)
\* C4 as stated: every frame carries text, none shorter than the one before
C4_NonDecreasing ==
    /\ \A i \in 1..applied : HasText(frames[i])
    /\ \A i \in 2..applied :
          str_len(TextOf(frames[i])) >= str_len(TextOf(frames[i - 1]))

C4_NonDecreasingSumsToLast ==
    (applied >= 1 /\ C4_NonDecreasing)
    => /\ pc = "sink"
       /\ PrimaryText = TextOf(frames[applied])

\* C4 amended: every frame carries streaming content with is_streaming true
\* and each frame's text begins with the text of the frame before it
C4_PrefixGrowing ==
    /\ \A i \in 1..applied :
          HasText(frames[i]) /\ frames[i].val.streaming_content.val.is_streaming
    /\ \A i \in 2..applied : IsPrefix(TextOf(frames[i - 1]), TextOf(frames[i]))

C4_PrefixGrowingSumsToLast ==
    (applied >= 1 /\ C4_PrefixGrowing)
    => /\ pc = "sink"
       /\ PrimaryText = TextOf(frames[applied])

C4_Witness ==
    /\ applied >= 2
    /\ C4_PrefixGrowing
    /\ Len(stdout) >= 2
    /\ pc = "sink"

(***************************************************************************)
(* C5: a Progress frame applied again (the same frame, or the same frame   *)
(* with a text of the same length or shorter) emits nothing, on either     *)
(* channel, and leaves the cursor and the final response as they were.     *)
(***************************************************************************)
IsReplay(new, old) ==
    \/ new = old
    \/ /\ HasText(new)
       /\ HasText(old)
       /\ str_len(TextOf(new)) <= str_len(TextOf(old))
       /\ [new EXCEPT !.val.streaming_content.val.text = TextOf(old)] = old

C5_ReplayEmitsNothing ==
    [][(/\ Fetched
        /\ IsEvent(event, "Progress")
        /\ IsEvent(event', "Progress")
        /\ IsReplay(EventOf(event').val, EventOf(event).val))
       => UNCHANGED << stdout, stderr, last_streaming_text_len, final_response >>]_vars

(***************************************************************************)
(* C6: a Progress frame whose text is shorter than the cursor does not     *)
(* abort the turn: nothing is written for it, the cursor stays, and the    *)
(* loop goes on to the next item.                                          *)
(***************************************************************************)
C6_ShorterTextIgnored ==
    [][(/\ Fetched
        /\ IsEvent(event', "Progress")
        /\ HasText(EventOf(event').val)
        /\ str_len(TextOf(EventOf(event').val)) < last_streaming_text_len)
       => /\ pc' = "streaming"
          /\ result' = None
          /\ UNCHANGED << stdout, last_streaming_text_len >>]_vars

\* a shorter text was applied, and the loop is waiting for the next item
C6_Witness ==
    /\ IsEvent(event, "Progress")
    /\ HasText(EventOf(event).val)
    /\ EventOf(event).val.val.streaming_content.val.is_streaming
    /\ str_len(TextOf(EventOf(event).val)) < last_streaming_text_len
    /\ pc = "streaming"

(***************************************************************************)
(* C7: an Error event with message m ends the call with the remote error   *)
(* carrying m and with no final response; what was written to standard     *)
(* output before it stays as it is.                                        *)
(***************************************************************************)
C7_ErrorReturnsRemote ==
    [][(Fetched /\ IsEvent(event', "Error"))
       => /\ result' = Some(Err("Server error: " \o Payload(event').message))
          /\ final_response' = None
          /\ pc' = "exit1"
          /\ stdout' = stdout]_vars

C7_Witness ==
    /\ IsEvent(event, "Error")
    /\ stdout # <<>>
    /\ result = Some(Err("Server error: rate limited"))

(***************************************************************************)
(* C8: when the source ends and no Done or Error was decoded, the call     *)
(* returns the incomplete-stream error, which is neither a remote error    *)
(* nor a transport error, and no final response.                           *)
(***************************************************************************)
RemoteErrors == {Err("Server error: " \o m) : m \in Messages}

TransportFailures == {Err("SSE stream error: " \o e) : e \in TransportErrors}

C8_EndOfSourceIsIncomplete ==
    (event = EvNone)
    => /\ result = Some(Err("Stream ended without receiving a done event"))
       /\ result.val \notin RemoteErrors \cup TransportFailures
       /\ final_response = None
       /\ pc = "exit1"

\* the source ended after Progress frames only
C8_Witness ==
    /\ event = EvNone
    /\ sink_calls >= 1
    /\ stdout # <<>>

(***************************************************************************)
(* C9: a transport failure ends the call with the transport error wrapping *)
(* the failure's detail; after it nothing is fetched from the source and   *)
(* no request is made.                                                     *)
(***************************************************************************)
C9_TransportFailureNoRetry ==
    [][/\ (Fetched /\ event'.k = "Err")
          => /\ result' = Some(Err("SSE stream error: " \o event'.err))
             /\ result'.val \notin RemoteErrors
             /\ es' = "closed"
             /\ pc' = "exit1"
       /\ (event.k = "Err") => UNCHANGED << fetched, request, es, result, pc >>]_vars

\* the transport failed, and the source holds a later item
C9_Witness ==
    /\ event.k = "Err"
    /\ pending
    /\ sink_calls >= 1

(***************************************************************************)
(* C10: when the call returns from a Done or an Error event, the event     *)
(* source has been closed, items left unread or not.                       *)
(***************************************************************************)
C10_TerminalClosesSource ==
    (TerminalApplied /\ result.some) => es = "closed"

\* returned from a Done event while the source holds an unread item
C10_Witness ==
    /\ IsEvent(event, "Done")
    /\ result.some
    /\ pending

(***************************************************************************)
(* C11: the sink is called inside the turn of the loop that fetched the    *)
(* frame, once per frame that decodes to an event and never otherwise, so  *)
(* that before the next item is fetched the sink has run, to its end, on   *)
(* this frame's event and on the state the frame before left; the sink     *)
(* calls follow the order of arrival and none starts inside another.       *)
(***************************************************************************)
C11_SinkInArrivalOrder ==
    [][/\ Fetched =>
            LET e == EventOf(event')
                before == SinkState(last_streaming_text_len, stdout, stderr)
                after == on_event(config, before, e.val)
            IN  IF e.some
                THEN /\ sink_calls' = sink_calls + 1
                     /\ \/ after.panicked /\ pc' = "panicked"
                        \/ /\ ~after.panicked
                           /\ last_streaming_text_len' = after.len
                           /\ stdout' = after.out
                           /\ IsPrefix(after.err, stderr')
                ELSE UNCHANGED << sink_calls, last_streaming_text_len, stdout >>
       /\ ~Fetched => UNCHANGED << sink_calls, last_streaming_text_len, stdout >>
       /\ pc = "panicked" => ~Fetched]_vars

\* three frames in a row: text was written for the first and for the last,
\* the one between decoded to no event
C11_Witness ==
    /\ sink_calls = 2
    /\ decoded = 3
    /\ Len(TextPieces) = 2
    /\ IsEvent(event, "Done")
    /\ pc = "exit0"

(***************************************************************************)
(* C12: an Unknown event writes nothing on either channel, leaves the      *)
(* cursor and final_response as they were and does not end the turn: the   *)
(* loop goes on from the very state, event source included, in which it    *)
(* would have met the next item had the Unknown event not come.            *)
(***************************************************************************)
C12_UnknownChangesNothing ==
    [][(Fetched /\ IsEvent(event', "Unknown"))
       => /\ pc' = "streaming"
          /\ result' = None
          /\ UNCHANGED << stdout, stderr, last_streaming_text_len,
                          final_response, es, request >>]_vars

\* an Unknown event came after text was written, and the loop goes on
C12_Witness ==
    /\ IsEvent(event, "Unknown")
    /\ stdout # <<>>
    /\ last_streaming_text_len > 0
    /\ pc = "streaming"

(***************************************************************************)
(* C13: a payload that is empty, only whitespace, or "[DONE]" once trimmed *)
(* decodes to no event.  The loop takes it for nothing at all, not for the *)
(* end of the stream: the sink is not called, nothing changes, and a Done  *)
(* or an Error frame that comes next is handled as ever.                   *)
(***************************************************************************)
\* the item is a message whose payload trims to nothing or to the marker
CarriesNoEvent(item) ==
    /\ item.k = "Message"
    /\ trim(item.data) \in {Blank(FALSE), Marker(FALSE)}

\* C13: such a payload decodes to no event and changes nothing but the
\* count of payloads decoded; a Done or an Error frame right after it ends
\* the turn as it would have without it
C13_NoEventIsNoOp ==
    [][/\ (Fetched /\ CarriesNoEvent(event'))
          => /\ EventOf(event') = None
             /\ pc' = "streaming"
             /\ result' = None
             /\ UNCHANGED << sink_calls, stdout, stderr, last_streaming_text_len,
                             final_response, es, request >>
       /\ (CarriesNoEvent(event) /\ Fetched /\ IsEvent(event', "Done"))
          => \/ pc' = "panicked"
             \/ /\ pc' = "exit0"
                /\ result' = Some(Ok(ChatResponse(Payload(event'))))
                /\ sink_calls' = sink_calls + 1
       /\ (CarriesNoEvent(event) /\ Fetched /\ IsEvent(event', "Error"))
          => /\ pc' = "exit1"
             /\ result' = Some(Err("Server error: " \o Payload(event').message))
             /\ sink_calls' = sink_calls + 1]_vars

\* a payload without an event was decoded, and the Done frame after it
\* ended the turn
C13_Witness ==
    /\ decoded > sink_calls
    /\ sink_calls >= 1
    /\ IsEvent(event, "Done")
    /\ result.some
    /\ result.val.ok

(***************************************************************************)
(* C14: a payload that is neither empty nor the marker, and that is not a  *)
(* well-formed progress, done or error frame, decodes to Unknown, and the  *)
(* turn goes on after it.                                                  *)
(***************************************************************************)
\* a struct of the frame format written as a JSON object
IsObjectOf(ty, v) == v.t = "obj" /\ Valid(ty, v)

\* the payload is a {type, data} envelope of a known type whose data has
\* the shape of that type's payload
WellFormedFrame(raw) ==
    /\ raw.k = "json"
    /\ IsObjectOf(SseEnvelope, raw.doc)
    /\ LET type == raw.doc.v["type"].v
           data == raw.doc.v["data"]
       IN  \/ type = "progress" /\ IsObjectOf(AgentProgressUpdate, data)
           \/ type = "done" /\ IsObjectOf(DoneEvent, data)
           \/ type = "error" /\ IsObjectOf(ErrorEvent, data)

\* C14: the last item fetched carried a payload that is no well-formed
\* frame: it decoded to Unknown and the loop goes on
C14_MalformedIsUnknown ==
    (/\ event.k = "Message"
     /\ ~CarriesNoEvent(event)
     /\ ~WellFormedFrame(event.data))
    => /\ IsEvent(event, "Unknown")
       /\ pc = "streaming"
       /\ result = None

(***************************************************************************)
(* C15: the progress envelope whose data holds sessionId, currentIteration,*)
(* maxIteration, an empty steps list and isComplete, and nothing else,     *)
(* decodes to a Progress event.                                            *)
(***************************************************************************)
\* sse.rs:194, the payload of test_parse_progress_event
test_parse_progress_event_data ==
    Json(FALSE, Envelope("progress",
        JObj(Obj1("sessionId", JStr("abc123")) @@ Obj1("currentIteration", JNum(1))
             @@ Obj1("maxIteration", JNum(10)) @@ Obj1("steps", JArr(<<>>))
             @@ Obj1("isComplete", JBool(FALSE)))))

\* C15: that payload decodes to a Progress event
C15_TestPayloadIsProgress ==
    (event = EvMessage(test_parse_progress_event_data)) => IsEvent(event, "Progress")

(***************************************************************************)
(* C16: the response of a successful call is made once, when the Done      *)
(* event is met, and holds the content, the conversation id and the        *)
(* history decoded from the Done payload, nothing else; the done payload   *)
(* of test_parse_done_event decodes with its content and its               *)
(* conversation_id kept.  Progress events never set or change it.          *)
(***************************************************************************)
\* sse.rs:201, the payload of test_parse_done_event; its content "Hello!"
\* is written with the one-character text "a"
test_parse_done_event_data ==
    Json(FALSE, Envelope("done", JObj(Obj1("content", JStr(<<"a">>))
                                      @@ Obj1("conversation_id", JStr("conv123")))))

\* the response r holds what the Done event done holds
HoldsDone(r, done) ==
    /\ r.content = done.content
    /\ r.conversation_id = done.conversation_id
    /\ r.conversation_history = done.conversation_history

\* C16: a successful result holds what the Done event last fetched holds,
\* final_response is set by a Done event only, and both are set once
C16_ResultIsDonePayload ==
    /\ [](/\ (result.some /\ result.val.ok)
             => /\ IsEvent(event, "Done")
                /\ HoldsDone(result.val.val, Payload(event))
                /\ final_response = Some(result.val.val)
          /\ final_response.some => IsEvent(event, "Done")
          /\ (event = EvMessage(test_parse_done_event_data))
             => /\ result.some
                /\ result.val.ok
                /\ result.val.val.content = <<"a">>
                /\ result.val.val.conversation_id = Some("conv123")
                /\ result.val.val.conversation_history = None)
    /\ [][(final_response' # final_response \/ result' # result)
          => /\ Fetched
             /\ final_response = None
             /\ result = None]_vars

\* the call returned the response of the test's done payload after a
\* Progress event had streamed other text; the id is not the request's
C16_Witness ==
    /\ event = EvMessage(test_parse_done_event_data)
    /\ result.some
    /\ result.val.ok
    /\ \E t \in streamed : str_len(t) > 0
    /\ result.val.val.content \notin streamed
    /\ conversation_id = Some("conv0")
    /\ sink_calls >= 2

(***************************************************************************)
(* C17: a done frame that carries its conversation id and history under    *)
(* given keys decodes to a Done event that holds them, and the response    *)
(* returned carries them.                                                  *)
(***************************************************************************)
\* the history HistoryDoc decodes to
DecodedHistory ==
    << [role |-> "user", content |-> "hello", timestamp |-> None,
        tool_calls |-> None, tool_results |-> None] >>

\* C17 as stated, for the keys conversationId and conversationHistory
C17_CamelCaseDoneKept ==
    (event = EvMessage(CamelCaseDoneFrame))
    => /\ IsEvent(event, "Done")
       /\ Payload(event).conversation_id = Some("conv123")
       /\ Payload(event).conversation_history = Some(DecodedHistory)
       /\ result.some
       /\ result.val.ok
       /\ result.val.val.conversation_id = Some("conv123")
       /\ result.val.val.conversation_history = Some(DecodedHistory)

\* C17 amended: the keys read are conversation_id and conversation_history;
\* under conversationId and conversationHistory the frame still decodes to
\* Done, with neither an id nor a history
C17_SnakeCaseDoneKept ==
    /\ (event = EvMessage(SnakeCaseDoneFrame))
       => /\ IsEvent(event, "Done")
          /\ Payload(event).conversation_id = Some("conv123")
          /\ Payload(event).conversation_history = Some(DecodedHistory)
          /\ result.some
          /\ result.val.ok
          /\ result.val.val.conversation_id = Some("conv123")
          /\ result.val.val.conversation_history = Some(DecodedHistory)
    /\ (event = EvMessage(CamelCaseDoneFrame))
       => /\ IsEvent(event, "Done")
          /\ result.some
          /\ result.val.ok
          /\ result.val.val.conversation_id = None
          /\ result.val.val.conversation_history = None

\* the call returned the response of the snake_case frame, and the closure
\* printed its conversation id
C17_Witness ==
    /\ event = EvMessage(SnakeCaseDoneFrame)
    /\ result.some
    /\ result.val.ok
    /\ stderr # <<>>
    /\ stderr[Len(stderr)] = <<"conversation_id", "conv123">>

(***************************************************************************)
(* C18: the request chat_streaming sends has a JSON body with a model, one *)
(* message {role, content} holding the user's text, the conversation id    *)
(* under a given key exactly when one was supplied, and stream true; its   *)
(* headers include Authorization: Bearer <token> and Accept:               *)
(* text/event-stream.                                                      *)
(***************************************************************************)
\* all of the request but the conversation id
RequestBasics ==
    LET body == request.val.body
        messages == body.v["messages"]
    IN  /\ body.t = "obj"
        /\ {"model", "messages", "stream"} \subseteq DOMAIN body.v
        /\ body.v["model"].t = "str"
        /\ messages.t = "arr"
        /\ Len(messages.v) = 1
        /\ messages.v[1].t = "obj"
        /\ DOMAIN messages.v[1].v = {"role", "content"}
        /\ messages.v[1].v["role"] = JStr("user")
        /\ messages.v[1].v["content"] = JStr(MessageText)
        /\ body.v["stream"] = JBool(TRUE)
        /\ request.val.headers["Authorization"] = "Bearer " \o config.api_key
        /\ request.val.headers["Accept"] = "text/event-stream"

\* C18 as stated: the id goes under the key conversationId
C18_RequestHasConversationId ==
    request.some
    => /\ RequestBasics
       /\ ("conversationId" \in DOMAIN request.val.body.v) <=> conversation_id.some

\* C18 amended: the id goes under the key conversation_id, and the key
\* conversationId is never sent
C18_RequestHasConversation_id ==
    request.some
    => /\ RequestBasics
       /\ ("conversation_id" \in DOMAIN request.val.body.v) <=> conversation_id.some
       /\ conversation_id.some
          => request.val.body.v["conversation_id"] = JStr(conversation_id.val)
       /\ "conversationId" \notin DOMAIN request.val.body.v

\* a request was sent for a turn that starts a conversation, and the
\* call has returned
C18_Witness ==
    /\ request.some
    /\ conversation_id = None
    /\ result.some

(***************************************************************************)
(* C19: a Progress event makes the sink write one notice on standard error *)
(* for each of its steps that is running or complete and holds a           *)
(* descriptor; the notices are no part of the text on standard output and  *)
(* do not move the cursor.                                                 *)
(***************************************************************************)
IsActive(step) == step.status = "running" \/ step.status = "complete"

\* the event's text is written, and the cursor moved, as for the same
\* event without steps
TextAsWithoutSteps(progress) ==
    LET bare == on_progress(config,
                            SinkState(last_streaming_text_len, stdout, stderr),
                            [progress EXCEPT !.steps = <<>>])
    IN  /\ stdout' = bare.out
        /\ last_streaming_text_len' = bare.len

\* what the runtime writes on standard error when the sink's slice panics
PanicLine == IF pc' = "panicked" THEN << <<"panic", "not a char boundary">> >> ELSE <<>>

\* C19 as stated: a tool-call or a tool-result descriptor earns a notice
C19_NoticePerToolStep ==
    [][(Fetched /\ IsEvent(event', "Progress"))
       => LET noticed == SelectSeq(Payload(event').steps, LAMBDA step :
                            /\ IsActive(step)
                            /\ step.tool_call.some \/ step.tool_result.some)
          IN  /\ Len(stderr') = Len(stderr) + Len(noticed) + Len(PanicLine)
              /\ SubSeq(stderr', 1, Len(stderr)) = stderr
              /\ TextAsWithoutSteps(Payload(event'))]_vars

\* C19 amended: only with show_tool_calls set, only a tool-call descriptor
\* earns a notice, which names the tool
C19_NoticePerToolCall ==
    [][(Fetched /\ IsEvent(event', "Progress"))
       => LET noticed == IF config.show_tool_calls
                         THEN SelectSeq(Payload(event').steps, LAMBDA step :
                                  IsActive(step) /\ step.tool_call.some)
                         ELSE <<>>
              notices == [i \in DOMAIN noticed |->
                            <<"tool", noticed[i].tool_call.val.name>>]
          IN  /\ stderr' = stderr \o notices \o PanicLine
              /\ TextAsWithoutSteps(Payload(event'))]_vars

\* text was written, then a Progress event with two steps brought two
\* notices
C19_Witness ==
    /\ IsEvent(event, "Progress")
    /\ Len(Payload(event).steps) = 2
    /\ config.show_tool_calls
    /\ Len(stderr) >= 2
    /\ stdout # <<>>
    /\ last_streaming_text_len > 0
    /\ pc = "streaming"

(***************************************************************************)
(* C20: a streaming turn the user interrupts ends as a turn whose          *)
(* transport failed does, with a cancellation for a reason: the event      *)
(* source is closed, the call returns the transport error and no response, *)
(* and no item is fetched, decoded or passed to the sink afterwards.       *)
(***************************************************************************)
CancelReasons == {"cancelled", "interrupted"}

\* C20: an interrupt ends the turn as a transport error does, and nothing
\* is processed after it
C20_CancelIsTransportError ==
    [][/\ Interrupt
          => /\ es' = "closed"
             /\ \E reason \in CancelReasons :
                   /\ result' = Some(Err("SSE stream error: " \o reason))
                   /\ stderr' = Append(stderr, <<"error", result'.val.err>>)
             /\ final_response' = None
             /\ pc' = "exit1"
       /\ (pc = "interrupted")
          => UNCHANGED << fetched, decoded, sink_calls, stdout, stderr, result >>]_vars

(***************************************************************************)
(* C22: when the call fails (Error event, source ended without Done,       *)
(* transport failure) the error is written on standard error, the last     *)
(* line being send_message's report of it; standard output keeps the text  *)
(* written before the failure, and nothing is added to it.                 *)
(***************************************************************************)
C22_ErrorOnStderrOnly ==
    [][(Fetched /\ pc' = "exit1")
       => /\ result'.some
          /\ ~result'.val.ok
          /\ stdout' = stdout
          /\ \A i \in DOMAIN stdout' : stdout'[i] \in Texts \cup {<<NL>>}
          /\ Len(stderr') > Len(stderr)
          /\ stderr'[Len(stderr')] = <<"error", result'.val.err>>]_vars

\* two pieces of text were written, then the source ended without a Done
C22_Witness ==
    /\ pc = "exit1"
    /\ event = EvNone
    /\ Len(stdout) >= 2
    /\ stderr # <<>>

(***************************************************************************)
(* C24: a Progress event writes text only when it has streaming content    *)
(* with is_streaming true and a text longer than the cursor; it then       *)
(* writes the part of the text beyond the cursor and the cursor becomes    *)
(* the length of the text.  Otherwise it writes no text and the cursor     *)
(* stays.                                                                  *)
(***************************************************************************)
C24_ProgressEmitsSlice ==
    [][(Fetched /\ IsEvent(event', "Progress"))
       => LET streaming == Payload(event').streaming_content
          IN  IF /\ streaming.some
                 /\ streaming.val.is_streaming
                 /\ str_len(streaming.val.text) > last_streaming_text_len
              THEN /\ \E suffix \in Suffixes(streaming.val.text) :
                         /\ str_len(suffix)
                              = str_len(streaming.val.text) - last_streaming_text_len
                         /\ stdout' = Append(stdout, suffix)
                   /\ last_streaming_text_len' = str_len(streaming.val.text)
              ELSE UNCHANGED << stdout, last_streaming_text_len >>]_vars

C27_ExitFollowsResult ==
    request.some
    => /\ (pc = "exit1") <=> (result.some /\ ~result.val.ok)
       /\ (pc = "exit0") <=> IsEvent(event, "Done")
       /\ (pc = "exit1")
          => /\ \A i \in DOMAIN stdout : stdout[i] # <<NL>>
             /\ \A i \in DOMAIN stderr : stderr[i][1] # "conversation_id"

(***************************************************************************)
(* C28: the conversation id a chat request of the session carries is the   *)
(* id of the latest successful response that carried one since the last    *)
(* /new or /clear, none right after /new or /clear, and the configured     *)
(* default before any of these.  A failed request or a response without id *)
(* leaves it as it is; an empty line, /help, /status and unknown slash      *)
(* commands send nothing and leave it as it is.                            *)
(***************************************************************************)
\* the entries of the history that decide the conversation id
Decides(entry) ==
    \/ entry.k = "input" /\ entry.text \in {"/new", "/clear"}
    \/ entry.k = "reply" /\ entry.val.ok /\ entry.val.val.conversation_id.some

ExpectedId(log) ==
    LET deciding == {i \in DOMAIN log : Decides(log[i])}
    IN  IF deciding = {} THEN config.default_conversation_id
        ELSE LET last == CHOOSE i \in deciding : \A j \in deciding : j <= i
             IN  IF log[last].k = "input" THEN None
                 ELSE log[last].val.val.conversation_id

\* the conversation id a request carries on the wire
SentId(req) ==
    IF "conversation_id" \in DOMAIN req.body.v
    THEN Some(req.body.v["conversation_id"].v) ELSE None

LastInput == history'[Len(history')]

\* C28: the id sent and the id kept follow the history of the session
C28_SentIdFollowsHistory ==
    [][/\ (pc = "prompt" /\ pc' = "awaiting")
          => /\ request'.some
             /\ SentId(request'.val) = ExpectedId(history)
       /\ pc' \in {"prompt", "awaiting"} => conversation_id' = ExpectedId(history')
       /\ (/\ pc = "prompt"
           /\ Len(history') = Len(history) + 1
           /\ LastInput.text \in {"", "/help", "/status", "/bogus"})
          => UNCHANGED << request, conversation_id, in_flight >>
       /\ (pc = "awaiting" /\ pc' = "prompt" /\ ~Decides(LastInput))
          => conversation_id' = conversation_id]_vars

\* a request carried the id of an earlier response, after a later request
\* had failed
C28_Witness ==
    /\ pc = "awaiting"
    /\ SentId(request.val) = Some("conv1")
    /\ \E i, j \in DOMAIN history :
          /\ i < j
          /\ history[i].k = "reply" /\ history[i].val.ok
          /\ history[j].k = "reply" /\ ~history[j].val.ok

(***************************************************************************)
(* C21: chat turns come one after the other.  At most one turn is in       *)
(* flight, a turn begins only when none is, and a streaming turn begins    *)
(* with the cursor at 0, no final response and nothing returned, whatever  *)
(* the turn before it left behind.                                         *)
(***************************************************************************)
TurnsInFlight == in_flight + (IF pc = "streaming" THEN 1 ELSE 0)

StreamingTurnBegins == pc = "start" /\ pc' = "streaming"

ChatTurnBegins == in_flight' = in_flight + 1

\* C21: turns are sequential and a streaming turn starts from fresh state
C21_TurnsAreSequential ==
    [][/\ TurnsInFlight <= 1
       /\ (StreamingTurnBegins \/ ChatTurnBegins)
          => /\ TurnsInFlight = 0
             /\ TurnsInFlight' = 1
       /\ StreamingTurnBegins
          => /\ last_streaming_text_len' = 0
             /\ final_response' = None
             /\ result' = None
             /\ fetched' = 0]_vars

\* a second streaming turn has begun after a turn that left the cursor
\* beyond 0 and a final response
C21_Witness ==
    /\ TurnsBegun = 1
    /\ pc = "start"
    /\ last_streaming_text_len > 0
    /\ final_response # None

(***************************************************************************)
(* C23: every request the client issues carries the header Authorization   *)
(* with "Bearer " and the configured API key, and with an empty API key no *)
(* request is issued.                                                      *)
(***************************************************************************)
RequestsIssued ==
    (IF request.some THEN {request.val} ELSE {})
    \cup {history[i].req : i \in {j \in DOMAIN history : history[j].k = "request"}}

\* C23: the bearer header on every request; no request without a key
C23_EveryRequestAuthorized ==
    /\ \A req \in RequestsIssued :
          /\ "Authorization" \in DOMAIN req.headers
          /\ req.headers["Authorization"] = "Bearer " \o config.api_key
    /\ config.api_key = "" => RequestsIssued = {} /\ in_flight = 0 /\ es = "none"

\* a command made a GET and a DELETE request with the key
C23_Witness ==
    /\ config.api_key = "sk-test"
    /\ \E req \in RequestsIssued : req.method = "GET"
    /\ \E req \in RequestsIssued : req.method = "DELETE"
    /\ pc = "client"

(***************************************************************************)
(* C29: the helper has one capture at most, and current_stream is set      *)
(* exactly when current_session is.  start_capture during a capture is     *)
(* answered ALREADY_CAPTURING and leaves the capture and its session as    *)
(* they are; a start that fails is answered START_FAILED and leaves the    *)
(* helper idle; stop_capture without a capture is answered NOT_CAPTURING   *)
(* and changes nothing; stop_capture during a capture ends it, whatever    *)
(* id the command names.                                                   *)
(***************************************************************************)
\* this step is main handling the command at the head of cmd_rx
Handled == pc = "recv" /\ cmd_rx # <<>> /\ cmd_rx' = Tail(cmd_rx)

\* C29: the capture state and the answers to start_capture and stop_capture
C29_OneCapture ==
    [][/\ current_stream'.some <=> current_session'.some
       /\ current_stream'.some
          => current_stream'.val.session_id = current_session'.val
       /\ Len(audio_rx') > Len(audio_rx)
          => /\ current_session.some
             /\ audio_rx'[Len(audio_rx')].session_id = current_session.val
       /\ (Handled /\ Head(cmd_rx).type = "start_capture")
          => IF current_stream.some
             THEN /\ stdout' = Append(stdout, ErrorLine(Head(cmd_rx).id,
                                                        "ALREADY_CAPTURING"))
                  /\ UNCHANGED << current_stream, current_session >>
             ELSE \/ /\ current_stream'.some
                     /\ current_session' = Some(Head(cmd_rx).id)
                     /\ stdout' = stdout
                  \/ /\ stdout' = Append(stdout, ErrorLine(Head(cmd_rx).id,
                                                           "START_FAILED"))
                     /\ current_stream' = None
                     /\ current_session' = None
       /\ (Handled /\ Head(cmd_rx).type = "stop_capture")
          => IF current_stream.some
             THEN /\ current_stream' = None
                  /\ current_session' = None
                  /\ stdout' = stdout
             ELSE /\ stdout' = Append(stdout, ErrorLine(Head(cmd_rx).id,
                                                        "NOT_CAPTURING"))
                  /\ UNCHANGED << current_stream, current_session >>]_vars

\* a start_capture for "s2" was refused during the capture of "s1", which
\* goes on, and a stop_capture that names "s2" is next
C29_Witness ==
    /\ current_session = Some("s1")
    /\ current_stream.some
    /\ ErrorLine("s2", "ALREADY_CAPTURING") \in Range(stdout)
    /\ pc = "recv"
    /\ cmd_rx # <<>>
    /\ Head(cmd_rx) = Obj1("type", "stop_capture") @@ Obj1("id", "s2")

(***************************************************************************)
(* C30: the chunks of a capture are written in the order of their capture, *)
(* numbered from 0 and each one more than the one before, none twice and   *)
(* none left out among those written, and the chunks of a capture that was *)
(* stopped come before every chunk of a capture started later.             *)
(***************************************************************************)
Written == SelectSeq(stdout, LAMBDA line : line.type = "audio_chunk")

Queued == [i \in DOMAIN audio_rx |-> ChunkLine(audio_rx[i])]

\* each chunk opens a capture with number 0 or follows the chunk before it
\* in the same capture
InCaptureOrder(chunks) ==
    \A i \in DOMAIN chunks :
        IF i = 1 THEN chunks[i].sequence = 0
        ELSE \/ chunks[i].sequence = 0
             \/ /\ chunks[i].id = chunks[i - 1].id
                /\ chunks[i].sequence = chunks[i - 1].sequence + 1

\* C30: the chunks written, and those still to be written after them, are
\* in capture order: runs numbered 0, 1, 2, .. of one session each, so that
\* no chunk of a capture follows a chunk of a later capture
C30_ChunksInCaptureOrder == InCaptureOrder(Written \o Queued)

\* two chunks of "s1" and then a chunk of "s2" have been written
C30_Witness ==
    /\ Len(Written) >= 3
    /\ Written[1].id = "s1"
    /\ Written[2].id = "s1"
    /\ Written[3].id = "s2"

====
